---- MODULE Spec2Model ----
(***************************************************************************)
(* A model of the scim_proto crate (kanidm/scim): the attribute value      *)
(* model and its classification (lib.rs), the extraction macros            *)
(* (macros.rs) and the schema-checked converters between ScimEntry and the *)
(* typed resources User and Group (user.rs, group.rs).                     *)
(*                                                                         *)
(* Every conversion of the crate is a pure function, so each one is an     *)
(* operator here, and an action applies it to an input held in the state.  *)
(*                                                                         *)
(* Representation.  A Rust enum value is a tuple whose first element is    *)
(* the variant's name: Value::String(s) is <<"VString", s>>,               *)
(* ScimSimpleAttr::String(s) is <<"String", s>>, Some(x) is <<"Some", x>>, *)
(* Ok(x) is <<"Ok", x>>, Err(e) is <<"Err", e>>.  A BTreeMap<String, T> is *)
(* a function whose domain is its set of keys; a Vec<T> is a sequence; a   *)
(* struct is a record.                                                     *)
(***************************************************************************)
EXTENDS Integers, Sequences, FiniteSets, TLC

VARIABLES
    pc,     \* where the current call sequence stands
    wire,   \* a serde_json::Value handed to ScimAttr::try_from
    attr,   \* the Result of ScimAttr::try_from, or a ScimAttr built directly
    back,   \* the Value produced by Into<Value> for ScimAttr
    n,      \* Some(the value returned by ScimAttr::len), None before the call
    entry,  \* the ScimEntry handed to User::try_from or Group::try_from
    edits,  \* how many times the entry was changed before the call
    complex, \* a ScimComplexAttr handed to a nested shape's try_from
    kind,   \* the type the call converts to: "User", "Group" or a nested shape
    debug,  \* whether the build that ran the call has debug assertions
    res,    \* what try_from did: Ok(resource), Err(error) or Panic
    rest,   \* the entry's attrs as try_from left them
    out,    \* Some(what Into made of the resource), None before the call
    redo,   \* Some(what try_from did on out), None before the call
    text,   \* a text handed to a parser: Some(text), None when there is none
    parsed, \* Some(what the parser returned), None before the call
    shown,  \* Some(the Display form of the parsed value), None before the call
    again   \* Some(what the parser returned for the Display form), None before

attrVars == <<wire, attr, back, n>>
entryVars == <<entry, edits, complex, kind, debug, res, rest, out, redo>>
textVars == <<text, parsed, shown, again>>
vars ==
    <<pc, wire, attr, back, n, entry, edits, complex, kind, debug, res, rest, out,
      redo, text, parsed, shown, again>>

(***************************************************************************)
(* Option and Result.                                                      *)
(***************************************************************************)
None == <<"None">>
Some(x) == <<"Some", x>>
IsSome(o) == o[1] = "Some"

Ok(x) == <<"Ok", x>>
Err(e) == <<"Err", e>>
IsOk(r) == r[1] = "Ok"
IsErr(r) == r[1] = "Err"

\* The nine kinds of ScimError.
ScimError ==
    { "EntryMissingSchema", "InconsistentMultiValue", "EmptyMultiValue",
      "NestedMultiValue", "InvalidSingleValue", "MissingRequiredAttribute",
      "InvalidAttribute", "UnknownLocale", "UnknownTimezone" }

\* `let v = x; F(v)`: x is evaluated once and F is applied to its value.
Bind(x, F(_)) == CHOOSE y \in { F(v) : v \in {x} } : TRUE

\* BTreeMap / JsonMap helpers.
EmptyMap == <<>>
Maps(K, V) == UNION { [D -> V] : D \in SUBSET K }
SeqsUpTo(S, len) == UNION { [1..k -> S] : k \in 0..len }
MinOf(S) == CHOOSE i \in S : \A j \in S : i <= j

(***************************************************************************)
(* iter.map(F).collect::<Result<Vec<_>, _>>(): the elements are converted  *)
(* in order and the first one that is not Ok ends the collection with its  *)
(* outcome; rs is the sequence of the elements' conversions.               *)
(***************************************************************************)
CollectVec_last(converted) ==
    LET rs == converted IN
    LET bad == { i \in DOMAIN rs : ~IsOk(rs[i]) }
        last == CHOOSE i \in bad : \A j \in bad : j <= i
    IN  IF bad = {} THEN Ok([i \in DOMAIN rs |-> rs[i][2]])
        ELSE rs[last]

CollectVec(converted) ==
    Bind(converted, LAMBDA rs :
        LET bad == { i \in DOMAIN rs : ~IsOk(rs[i]) }
        IN  IF bad = {} THEN Ok([i \in DOMAIN rs |-> rs[i][2]])
            ELSE rs[MinOf(bad)])

(***************************************************************************)
(* serde_json::Value.                                                      *)
(***************************************************************************)
VNull == <<"VNull">>
VBool(b) == <<"VBool", b>>
VNumber(x) == <<"VNumber", x>>
VString(s) == <<"VString", s>>
VArray(s) == <<"VArray", s>>
VObject(m) == <<"VObject", m>>

(***************************************************************************)
(* lib.rs: ScimSimpleAttr.                                                 *)
(***************************************************************************)
ScimSimpleAttr_try_from(value) ==
    CASE value[1] = "VString" -> Ok(<<"String", value[2]>>)
      [] value[1] = "VBool"   -> Ok(<<"Bool", value[2]>>)
      [] value[1] = "VNumber" -> Ok(<<"Number", value[2]>>)
      [] value[1] \in {"VNull", "VObject", "VArray"} -> Err("InvalidSingleValue")

ScimSimpleAttr_into(ssa) ==
    CASE ssa[1] = "String" -> VString(ssa[2])
      [] ssa[1] = "Bool"   -> VBool(ssa[2])
      [] ssa[1] = "Number" -> VNumber(ssa[2])

(***************************************************************************)
(* lib.rs: ScimComplexAttr { attrs: BTreeMap<String, ScimSimpleAttr> }.    *)
(***************************************************************************)
\* collect::<Result<BTreeMap<_, _>, _>>() over the map's entries: the first
\* entry that fails ends it.  JsonMap iterates in key order; every failure
\* of ScimSimpleAttr::try_from is the same error, so the choice of the
\* failing entry does not show in the result.
ScimComplexAttr_try_from_map(map) ==
    LET conv == [k \in DOMAIN map |-> ScimSimpleAttr_try_from(map[k])]
        bad  == { k \in DOMAIN map : ~IsOk(conv[k]) }
    IN  IF bad = {} THEN Ok([attrs |-> [k \in DOMAIN map |-> conv[k][2]]])
        ELSE conv[CHOOSE k \in bad : TRUE]

ScimComplexAttr_try_from(value) ==
    IF value[1] = "VObject" THEN ScimComplexAttr_try_from_map(value[2])
    ELSE Err("InconsistentMultiValue")

ScimComplexAttr_into(sca) ==
    VObject([k \in DOMAIN sca.attrs |-> ScimSimpleAttr_into(sca.attrs[k])])

(***************************************************************************)
(* lib.rs: ScimAttr.                                                       *)
(***************************************************************************)
SingleSimple(ssa) == <<"SingleSimple", ssa>>
SingleComplex(sca) == <<"SingleComplex", sca>>
MultiSimple(msa) == <<"MultiSimple", msa>>
MultiComplex(mca) == <<"MultiComplex", mca>>

ScimAttr_len(a) ==
    CASE a[1] \in {"SingleSimple", "SingleComplex"} -> 1
      [] a[1] = "MultiSimple"  -> Len(a[2])
      [] a[1] = "MultiComplex" -> Len(a[2])

\* Variants of the Value::Array arm: one without the nested-array arm, one
\* without the empty-array arm.
ScimAttr_try_from_array_no_nested(v) ==
    IF Len(v) = 0 THEN Err("EmptyMultiValue")
    ELSE IF v[1][1] = "VObject" THEN
        LET a == CollectVec([i \in DOMAIN v |-> ScimComplexAttr_try_from(v[i])])
        IN  IF IsOk(a) THEN Ok(MultiComplex(a[2])) ELSE a
    ELSE
        LET a == CollectVec([i \in DOMAIN v |-> ScimSimpleAttr_try_from(v[i])])
        IN  IF IsOk(a) THEN Ok(MultiSimple(a[2])) ELSE a

ScimAttr_try_from_array_no_empty(v) ==
    IF Len(v) > 0 /\ v[1][1] = "VArray" THEN Err("NestedMultiValue")
    ELSE IF Len(v) > 0 /\ v[1][1] = "VObject" THEN
        LET a == CollectVec([i \in DOMAIN v |-> ScimComplexAttr_try_from(v[i])])
        IN  IF IsOk(a) THEN Ok(MultiComplex(a[2])) ELSE a
    ELSE
        LET a == CollectVec([i \in DOMAIN v |-> ScimSimpleAttr_try_from(v[i])])
        IN  IF IsOk(a) THEN Ok(MultiSimple(a[2])) ELSE a

\* The Value::Array arm: v.get(0) decides how every element is converted.
ScimAttr_try_from_array(v) ==
    IF Len(v) = 0 THEN Err("EmptyMultiValue")
    ELSE IF v[1][1] = "VArray" THEN Err("NestedMultiValue")
    ELSE IF v[1][1] = "VObject" THEN
        LET a == CollectVec([i \in DOMAIN v |-> ScimComplexAttr_try_from(v[i])])
        IN  IF IsOk(a) THEN Ok(MultiComplex(a[2])) ELSE a
    ELSE
        LET a == CollectVec([i \in DOMAIN v |-> ScimSimpleAttr_try_from(v[i])])
        IN  IF IsOk(a) THEN Ok(MultiSimple(a[2])) ELSE a

ScimAttr_try_from(value) ==
    IF value[1] = "VArray" THEN ScimAttr_try_from_array(value[2])
    ELSE IF value[1] = "VObject" THEN
        LET c == ScimComplexAttr_try_from_map(value[2])
        IN  IF IsOk(c) THEN Ok(SingleComplex(c[2])) ELSE c
    ELSE
        LET s == ScimSimpleAttr_try_from(value)
        IN  IF IsOk(s) THEN Ok(SingleSimple(s[2])) ELSE s

\* A variant in which a one-element MultiSimple is written as the bare scalar.
ScimAttr_into_collapse(a) ==
    CASE a[1] = "SingleSimple"  -> ScimSimpleAttr_into(a[2])
      [] a[1] = "SingleComplex" -> ScimComplexAttr_into(a[2])
      [] a[1] = "MultiSimple"   ->
            IF Len(a[2]) = 1 THEN ScimSimpleAttr_into(a[2][1])
            ELSE VArray([i \in DOMAIN a[2] |-> ScimSimpleAttr_into(a[2][i])])
      [] a[1] = "MultiComplex"  ->
            VArray([i \in DOMAIN a[2] |-> ScimComplexAttr_into(a[2][i])])

ScimAttr_into(a) ==
    CASE a[1] = "SingleSimple"  -> ScimSimpleAttr_into(a[2])
      [] a[1] = "SingleComplex" -> ScimComplexAttr_into(a[2])
      [] a[1] = "MultiSimple"   ->
            VArray([i \in DOMAIN a[2] |-> ScimSimpleAttr_into(a[2][i])])
      [] a[1] = "MultiComplex"  ->
            VArray([i \in DOMAIN a[2] |-> ScimComplexAttr_into(a[2][i])])

(***************************************************************************)
(* The wire values the classification is run on: every scalar kind, and    *)
(* arrays and objects nested two levels deep, which is as deep as          *)
(* ScimAttr::try_from looks (an array, its object elements, their          *)
(* members).                                                               *)
(***************************************************************************)
MaxArrayLen == 2    \* the longest top-level array
MaxInnerLen == 1    \* the longest array inside an array or an object

MemberKeys == {"display", "value"}

WireScalars == { VNull, VBool(TRUE), VNumber(1), VString("a") }

WireInner ==
    WireScalars
    \cup { VArray(s) : s \in SeqsUpTo(WireScalars, MaxInnerLen) }
    \cup { VObject(m) : m \in Maps(MemberKeys, WireScalars) }

WireValues ==
    WireScalars
    \cup { VArray(s) : s \in SeqsUpTo(WireInner, MaxArrayLen) }
    \cup { VObject(m) : m \in Maps(MemberKeys, WireInner) }

\* ScimAttr values a caller builds itself rather than from the wire (the
\* enum's variants are public), the empty multi-valued ones among them.
BuiltAttrs ==
    { SingleSimple(<<"String", "a">>), SingleSimple(<<"Bool", TRUE>>),
      SingleSimple(<<"Number", 1>>),
      SingleComplex([attrs |-> EmptyMap]),
      SingleComplex([attrs |-> [k \in {"value"} |-> <<"Bool", TRUE>>]]),
      MultiSimple(<<>>), MultiSimple(<< <<"String", "a">>, <<"Number", 1>> >>),
      MultiComplex(<<>>),
      MultiComplex(<< [attrs |-> EmptyMap],
                      [attrs |-> [k \in {"value"} |-> <<"String", "a">>]] >>) }

\* The variables of the text parsers, while none is under way.
TextIdle == text = None /\ parsed = None /\ shown = None /\ again = None

\* The variables of the resource conversions, while none is under way.
EntryIdle ==
    /\ entry = None /\ edits = 0 /\ complex = None /\ kind = "-"
    /\ debug = FALSE /\ res = None /\ rest = None /\ out = None /\ redo = None

InitAttr ==
    /\ EntryIdle /\ TextIdle
    /\ back = None
    /\ n = None
    /\ \/ pc = "wire" /\ wire \in WireValues /\ attr = None
       \/ pc = "built" /\ wire = VNull /\ attr \in { Ok(a) : a \in BuiltAttrs }

\* ScimAttr::try_from(value)
TryFromValue ==
    /\ pc = "wire"
    /\ attr' = ScimAttr_try_from(wire)
    /\ pc' = "classified"
    /\ UNCHANGED <<wire, back, n>>
    /\ UNCHANGED <<entryVars, textVars>>

\* ScimAttr::len(&self)
CallLen ==
    /\ pc \in {"classified", "built"}
    /\ IsOk(attr)
    /\ n = None
    /\ n' = Some(ScimAttr_len(attr[2]))
    /\ UNCHANGED <<pc, wire, attr, back>>
    /\ UNCHANGED <<entryVars, textVars>>

\* Into<Value> for ScimAttr
IntoValue ==
    /\ pc \in {"classified", "built"}
    /\ IsOk(attr)
    /\ back' = Some(ScimAttr_into(attr[2]))
    /\ pc' = IF pc = "classified" THEN "returned" ELSE "serialised"
    /\ UNCHANGED <<wire, attr, n>>
    /\ UNCHANGED <<entryVars, textVars>>

NextAttr == TryFromValue \/ CallLen \/ IntoValue

SpecAttr == InitAttr /\ [][NextAttr]_vars

(***************************************************************************)
(* Conversions of the crates this one builds on, as macros.rs and user.rs  *)
(* use them.  Each parses a text into a value that holds a canonical form  *)
(* and prints that form: Url::parse lower-cases the scheme and the host,   *)
(* Uuid::parse_str accepts upper-case digits and Uuid prints lower-case    *)
(* hyphenated, Base64UrlSafeData accepts the standard alphabet and prints  *)
(* the URL-safe one without padding.  The texts are those the inputs below *)
(* use; every other text fails to parse.                                   *)
(***************************************************************************)
UrlForms ==
    { <<"https://example.com/Users/2819c223", "https://example.com/Users/2819c223">>,
      <<"HTTPS://EXAMPLE.COM/Users/2819c223", "https://example.com/Users/2819c223">> }
UuidForms ==
    { <<"2819c223-7f76-453a-919d-413861904646", "2819c223-7f76-453a-919d-413861904646">>,
      <<"2819C223-7F76-453A-919D-413861904646", "2819c223-7f76-453a-919d-413861904646">> }
Base64Forms ==
    { <<"MIID-zCC", "MIID-zCC">>,
      <<"MIID+zCC", "MIID-zCC">> }

ParseWith(forms, s) ==
    IF \E f \in forms : f[1] = s
    THEN Ok((CHOOSE f \in forms : f[1] = s)[2])
    ELSE Err("ParseError")

\* Url::parse(&u) and Url::to_string()
Url_parse(u) ==
    LET r == ParseWith(UrlForms, u)
    IN  IF IsOk(r) THEN Ok([serialization |-> r[2]]) ELSE r
Url_to_string(url) == url.serialization

\* Uuid::parse_str(&u) and Uuid::to_string()
Uuid_parse_str(u) ==
    LET r == ParseWith(UuidForms, u)
    IN  IF IsOk(r) THEN Ok([hyphenated |-> r[2]]) ELSE r
Uuid_to_string(uuid) == uuid.hyphenated

\* Base64UrlSafeData::try_from(&str) and Base64UrlSafeData::to_string()
Base64UrlSafeData_try_from(v) ==
    LET r == ParseWith(Base64Forms, v)
    IN  IF IsOk(r) THEN Ok([urlsafe_nopad |-> r[2]]) ELSE r
Base64UrlSafeData_to_string(b) == b.urlsafe_nopad

\* .map_err(|e| { debug!(?e); ScimError::InvalidAttribute })
MapErrInvalid(r) == IF IsOk(r) THEN r ELSE Err("InvalidAttribute")

(***************************************************************************)
(* A failed debug_assert!: the call does not return.  The assertion is     *)
(* compiled only into builds with debug assertions, so every converter     *)
(* that has one takes the build's setting as dbg.                          *)
(***************************************************************************)
Panic == <<"Panic">>
IsPanic(r) == r[1] = "Panic"

\* BTreeMap::remove(key): the map without the key, and the value it held.
MapRemove(map, key) ==
    Bind(map, LAMBDA m :
        [attrs   |-> [k \in DOMAIN m \ {key} |-> m[k]],
         removed |-> IF key \in DOMAIN m THEN Some(m[key]) ELSE None])

\* BTreeMap::insert(key, val)
MapInsert(map, key, val) == (key :> val) @@ map

(***************************************************************************)
(* macros.rs: the extractions from a ScimComplexAttr's attrs, a            *)
(* BTreeMap<String, ScimSimpleAttr>.  Each removes the key and returns the *)
(* map that is left with the Result of the match.                          *)
(***************************************************************************)
\* .map(F).transpose()
Optional(removed, found) ==
    IF ~IsSome(removed) THEN Ok(None)
    ELSE IF IsOk(found) THEN Ok(Some(found[2])) ELSE found

MatchString(v) == IF v[1] = "String" THEN Ok(v[2]) ELSE Err("InvalidAttribute")
MatchBool(v) == IF v[1] = "Bool" THEN Ok(v[2]) ELSE Err("InvalidAttribute")
MatchUuid(v) ==
    IF v[1] = "String" THEN MapErrInvalid(Uuid_parse_str(v[2]))
    ELSE Err("InvalidAttribute")
MatchUrl(v) ==
    IF v[1] = "String" THEN MapErrInvalid(Url_parse(v[2]))
    ELSE Err("InvalidAttribute")

get_string(value_attrs, key) ==
    LET r == MapRemove(value_attrs, key)
    IN  [attrs |-> r.attrs,
         res |-> IF IsSome(r.removed) THEN MatchString(r.removed[2])
                 ELSE Err("MissingRequiredAttribute")]

get_uuid(value_attrs, key) ==
    LET r == MapRemove(value_attrs, key)
    IN  [attrs |-> r.attrs,
         res |-> IF IsSome(r.removed) THEN MatchUuid(r.removed[2])
                 ELSE Err("MissingRequiredAttribute")]

get_url(value_attrs, key) ==
    LET r == MapRemove(value_attrs, key)
    IN  [attrs |-> r.attrs,
         res |-> IF IsSome(r.removed) THEN MatchUrl(r.removed[2])
                 ELSE Err("MissingRequiredAttribute")]

get_option_string(value_attrs, key) ==
    LET r == MapRemove(value_attrs, key)
    IN  [attrs |-> r.attrs,
         res |-> IF IsSome(r.removed)
                 THEN Optional(r.removed, MatchString(r.removed[2]))
                 ELSE Ok(None)]

get_option_url(value_attrs, key) ==
    LET r == MapRemove(value_attrs, key)
    IN  [attrs |-> r.attrs,
         res |-> IF IsSome(r.removed)
                 THEN Optional(r.removed, MatchUrl(r.removed[2]))
                 ELSE Ok(None)]

get_option_bool(value_attrs, key) ==
    LET r == MapRemove(value_attrs, key)
    IN  [attrs |-> r.attrs,
         res |-> IF IsSome(r.removed)
                 THEN Optional(r.removed, MatchBool(r.removed[2]))
                 ELSE Ok(None)]

\* The macro a field's line names, applied to the map and the key.
SubGet(macro, value_attrs, key) ==
    CASE macro = "get_string"        -> get_string(value_attrs, key)
      [] macro = "get_uuid"          -> get_uuid(value_attrs, key)
      [] macro = "get_url"           -> get_url(value_attrs, key)
      [] macro = "get_option_string" -> get_option_string(value_attrs, key)
      [] macro = "get_option_url"    -> get_option_url(value_attrs, key)
      [] macro = "get_option_bool"   -> get_option_bool(value_attrs, key)

(***************************************************************************)
(* A nested shape's try_from is a run of `let field = macro!(attrs, key)?` *)
(* lines: the lines are taken in order, each removes its key from the map, *)
(* and the first that fails returns its error.  lines[i] is                *)
(* <<field, macro, key>>; the result holds the fields read and the map     *)
(* that is left.                                                           *)
(***************************************************************************)
RECURSIVE SubExtract(_, _, _, _)
SubExtract(lines, i, value_attrs, fields) ==
    IF i > Len(lines) THEN [res |-> Ok(fields), attrs |-> value_attrs]
    ELSE
        Bind(SubGet(lines[i][2], value_attrs, lines[i][3]), LAMBDA g :
            IF ~IsOk(g.res) THEN g
            ELSE SubExtract(lines, i + 1, g.attrs, fields @@ (lines[i][1] :> g.res[2])))

NoFields == <<>>

\* debug_assert!(sca.attrs.is_empty()); Ok(T { .. })
AssertDrained(extracted, dbg) ==
    Bind(extracted, LAMBDA x :
        IF ~IsOk(x.res) THEN x.res
        ELSE IF dbg /\ DOMAIN x.attrs # {} THEN Panic
        ELSE x.res)

\* user.rs: impl TryFrom<ScimComplexAttr> for Name
NameLines ==
    << <<"formatted", "get_option_string", "formatted">>,
       <<"family_name", "get_option_string", "familyName">>,
       <<"given_name", "get_option_string", "givenName">>,
       <<"middle_name", "get_option_string", "middleName">>,
       <<"honorific_prefix", "get_option_string", "honorificPrefix">>,
       <<"honorific_suffix", "get_option_string", "honorificSuffix">> >>
Name_try_from(value, dbg) ==
    AssertDrained(SubExtract(NameLines, 1, value.attrs, NoFields), dbg)

\* user.rs: impl TryFrom<ScimComplexAttr> for MultiValueAttr
MultiValueAttrLines ==
    << <<"type_", "get_option_string", "type">>,
       <<"primary", "get_option_bool", "primary">>,
       <<"display", "get_option_string", "display">>,
       <<"value", "get_string", "value">>,
       <<"ref_", "get_option_url", "$ref">> >>
MultiValueAttr_try_from(sca, dbg) ==
    AssertDrained(SubExtract(MultiValueAttrLines, 1, sca.attrs, NoFields), dbg)

\* user.rs: impl TryFrom<ScimComplexAttr> for Photo
Photo_try_from(sca, dbg) ==
    Bind(MultiValueAttr_try_from(sca, dbg), LAMBDA m :
        IF ~IsOk(m) THEN m
        ELSE LET value == MapErrInvalid(Url_parse(m[2].value))
             IN  IF ~IsOk(value) THEN value
                 ELSE Ok([m[2] EXCEPT !.value = value[2]]))

\* user.rs: impl TryFrom<ScimComplexAttr> for Binary
Binary_try_from(sca, dbg) ==
    Bind(MultiValueAttr_try_from(sca, dbg), LAMBDA m :
        IF ~IsOk(m) THEN m
        ELSE LET value == MapErrInvalid(Base64UrlSafeData_try_from(m[2].value))
             IN  IF ~IsOk(value) THEN value
                 ELSE Ok([m[2] EXCEPT !.value = value[2]]))

\* user.rs: impl TryFrom<ScimComplexAttr> for Address
AddressLines ==
    << <<"type_", "get_option_string", "type">>,
       <<"primary", "get_option_bool", "primary">>,
       <<"formatted", "get_option_string", "formatted">>,
       <<"street_address", "get_option_string", "streetAddress">>,
       <<"locality", "get_option_string", "locality">>,
       <<"region", "get_option_string", "region">>,
       <<"postal_code", "get_option_string", "postalCode">>,
       <<"country", "get_option_string", "country">> >>
Address_try_from(sca, dbg) ==
    AssertDrained(SubExtract(AddressLines, 1, sca.attrs, NoFields), dbg)

\* user.rs: impl TryFrom<ScimComplexAttr> for Group (a user's group reference)
UserGroupLines ==
    << <<"type_", "get_option_string", "type">>,
       <<"display", "get_string", "display">>,
       <<"value", "get_uuid", "value">>,
       <<"ref_", "get_url", "$ref">> >>
UserGroup_try_from(sca, dbg) ==
    AssertDrained(SubExtract(UserGroupLines, 1, sca.attrs, NoFields), dbg)

\* group.rs: impl TryFrom<ScimComplexAttr> for Member
MemberLines ==
    << <<"display", "get_string", "display">>,
       <<"value", "get_uuid", "value">>,
       <<"ref_", "get_url", "$ref">> >>
Member_try_from(sca, dbg) ==
    AssertDrained(SubExtract(MemberLines, 1, sca.attrs, NoFields), dbg)

\* $ty::try_from(sca)
NestedShapes ==
    {"Name", "MultiValueAttr", "Photo", "Binary", "Address", "UserGroup", "Member"}
Shape_try_from(ty, sca, dbg) ==
    CASE ty = "Name"           -> Name_try_from(sca, dbg)
      [] ty = "MultiValueAttr" -> MultiValueAttr_try_from(sca, dbg)
      [] ty = "Photo"          -> Photo_try_from(sca, dbg)
      [] ty = "Binary"         -> Binary_try_from(sca, dbg)
      [] ty = "Address"        -> Address_try_from(sca, dbg)
      [] ty = "UserGroup"      -> UserGroup_try_from(sca, dbg)
      [] ty = "Member"         -> Member_try_from(sca, dbg)

(***************************************************************************)
(* user.rs: Locale and Timezone, closed enumerations read from and printed *)
(* as text.                                                                *)
(***************************************************************************)
Locale_try_from(s) ==
    CASE s = "en"    -> Ok("Locale::en")
      [] s = "en-AU" -> Ok("Locale::en_AU")
      [] s = "en-US" -> Ok("Locale::en_US")
      [] s = "de"    -> Ok("Locale::de")
      [] s = "de-DE" -> Ok("Locale::de_DE")
      [] OTHER       -> Err("UnknownLocale")

\* A Display that writes the variant's name.
Locale_to_string_ident(l) ==
    CASE l = "Locale::en"    -> "en"
      [] l = "Locale::en_AU" -> "en_AU"
      [] l = "Locale::en_US" -> "en_US"
      [] l = "Locale::de"    -> "de"
      [] l = "Locale::de_DE" -> "de_DE"

Locale_to_string(l) ==
    CASE l = "Locale::en"    -> "en"
      [] l = "Locale::en_AU" -> "en-AU"
      [] l = "Locale::en_US" -> "en-US"
      [] l = "Locale::de"    -> "de"
      [] l = "Locale::de_DE" -> "de-DE"

Timezone_try_from(s) ==
    CASE s = "Australia/Brisbane"  -> Ok("Timezone::Australia_Brisbane")
      [] s = "America/Los_Angeles" -> Ok("Timezone::America_Los_Angeles")
      [] OTHER                     -> Err("UnknownLocale")

Timezone_to_string(t) ==
    CASE t = "Timezone::Australia_Brisbane"  -> "Australia/Brisbane"
      [] t = "Timezone::America_Los_Angeles" -> "America/Los_Angeles"

\* $ty::try_from(s) of try_from_option_single_string!
Text_try_from(ty, s) ==
    CASE ty = "Locale"   -> Locale_try_from(s)
      [] ty = "Timezone" -> Timezone_try_from(s)

(***************************************************************************)
(* macros.rs: the extractions from a ScimEntry's attrs, a                  *)
(* BTreeMap<String, ScimAttr>.                                             *)
(***************************************************************************)
MatchSingleString(v) ==
    IF v[1] = "SingleSimple" /\ v[2][1] = "String" THEN Ok(v[2][2])
    ELSE Err("InvalidAttribute")
MatchSingleBool(v) ==
    IF v[1] = "SingleSimple" /\ v[2][1] = "Bool" THEN Ok(v[2][2])
    ELSE Err("InvalidAttribute")

get_option_single_string(value_attrs, key) ==
    LET r == MapRemove(value_attrs, key)
    IN  [attrs |-> r.attrs,
         res |-> IF IsSome(r.removed)
                 THEN Optional(r.removed, MatchSingleString(r.removed[2]))
                 ELSE Ok(None)]

get_option_single_url(value_attrs, key) ==
    LET r == MapRemove(value_attrs, key)
        found(v) == IF v[1] = "SingleSimple" /\ v[2][1] = "String"
                    THEN MapErrInvalid(Url_parse(v[2][2]))
                    ELSE Err("InvalidAttribute")
    IN  [attrs |-> r.attrs,
         res |-> IF IsSome(r.removed)
                 THEN Optional(r.removed, found(r.removed[2]))
                 ELSE Ok(None)]

try_from_option_single_string(value_attrs, key, ty) ==
    LET r == MapRemove(value_attrs, key)
        found(v) == IF v[1] = "SingleSimple" /\ v[2][1] = "String"
                    THEN Text_try_from(ty, v[2][2])
                    ELSE Err("InvalidAttribute")
    IN  [attrs |-> r.attrs,
         res |-> IF IsSome(r.removed)
                 THEN Optional(r.removed, found(r.removed[2]))
                 ELSE Ok(None)]

get_option_single_complex(value_attrs, key, ty, dbg) ==
    LET r == MapRemove(value_attrs, key)
        found(v) == IF v[1] = "SingleComplex" THEN Shape_try_from(ty, v[2], dbg)
                    ELSE Err("InvalidAttribute")
    IN  [attrs |-> r.attrs,
         res |-> IF IsSome(r.removed)
                 THEN Optional(r.removed, found(r.removed[2]))
                 ELSE Ok(None)]

get_single_string(value_attrs, key) ==
    LET r == MapRemove(value_attrs, key)
    IN  [attrs |-> r.attrs,
         res |-> IF IsSome(r.removed) THEN MatchSingleString(r.removed[2])
                 ELSE Err("MissingRequiredAttribute")]

\* An extraction that takes an absent key for false.
get_single_bool_default(value_attrs, key) ==
    LET r == MapRemove(value_attrs, key)
    IN  [attrs |-> r.attrs,
         res |-> IF IsSome(r.removed) THEN MatchSingleBool(r.removed[2])
                 ELSE Ok(FALSE)]

get_single_bool(value_attrs, key) ==
    LET r == MapRemove(value_attrs, key)
    IN  [attrs |-> r.attrs,
         res |-> IF IsSome(r.removed) THEN MatchSingleBool(r.removed[2])
                 ELSE Err("MissingRequiredAttribute")]

\* The macro ends in .transpose()?.unwrap_or_default(): an error returns
\* from the converter, an absent key gives the empty Vec.
get_option_multi_complex(value_attrs, key, ty, dbg) ==
    LET r == MapRemove(value_attrs, key)
        found(v) == IF v[1] = "MultiComplex"
                    THEN CollectVec([i \in DOMAIN v[2] |-> Shape_try_from(ty, v[2][i], dbg)])
                    ELSE Err("InvalidAttribute")
    IN  [attrs |-> r.attrs,
         res |-> IF IsSome(r.removed) THEN found(r.removed[2]) ELSE Ok(<<>>)]

TopGet(macro, value_attrs, key, ty, dbg) ==
    CASE macro = "get_single_string" -> get_single_string(value_attrs, key)
      [] macro = "get_single_bool" -> get_single_bool(value_attrs, key)
      [] macro = "get_option_single_string" -> get_option_single_string(value_attrs, key)
      [] macro = "get_option_single_url" -> get_option_single_url(value_attrs, key)
      [] macro = "try_from_option_single_string" ->
            try_from_option_single_string(value_attrs, key, ty)
      [] macro = "get_option_single_complex" ->
            get_option_single_complex(value_attrs, key, ty, dbg)
      [] macro = "get_option_multi_complex" ->
            get_option_multi_complex(value_attrs, key, ty, dbg)

\* The run of `let field = macro!(value.attrs, key ..)?` lines of a resource's
\* try_from; lines[i] is <<field, macro, key, ty>>.
RECURSIVE TopExtract(_, _, _, _, _)
TopExtract(lines, i, value_attrs, fields, dbg) ==
    IF i > Len(lines) THEN [res |-> Ok(fields), attrs |-> value_attrs]
    ELSE
        Bind(TopGet(lines[i][2], value_attrs, lines[i][3], lines[i][4], dbg), LAMBDA g :
            IF ~IsOk(g.res) THEN g
            ELSE TopExtract(lines, i + 1, g.attrs,
                            fields @@ (lines[i][1] :> g.res[2]), dbg))

(***************************************************************************)
(* The schema URNs (crate::constants, RFC 7643).                           *)
(***************************************************************************)
SCIM_SCHEMA_USER == "urn:ietf:params:scim:schemas:core:2.0:User"
SCIM_SCHEMA_GROUP == "urn:ietf:params:scim:schemas:core:2.0:Group"

\* A check of the first URN of the list only.
HasSchema_first(schemas, urn) == Len(schemas) > 0 /\ schemas[1] = urn

\* value.schemas.iter().any(|i| i == urn)
HasSchema(schemas, urn) == \E i \in DOMAIN schemas : schemas[i] = urn

\* variant: the external id is not carried over
Envelope_no_external_id(value) ==
    [id |-> value.id, external_id |-> None, meta |-> value.meta]

\* id, external_id and meta are moved from the entry into the resource.
Envelope(value) ==
    [id |-> value.id, external_id |-> value.external_id, meta |-> value.meta]

(***************************************************************************)
(* user.rs: impl TryFrom<ScimEntry> for User.  The result is the Result    *)
(* returned and value.attrs as the call leaves it.                         *)
(***************************************************************************)
NoTy == "-"
UserLines ==
    << <<"user_name", "get_single_string", "userName", NoTy>>,
       <<"name", "get_option_single_complex", "name", "Name">>,
       <<"display_name", "get_option_single_string", "displayName", NoTy>>,
       <<"nick_name", "get_option_single_string", "nickName", NoTy>>,
       <<"profile_url", "get_option_single_url", "profileUrl", NoTy>>,
       <<"title", "get_option_single_string", "title", NoTy>>,
       <<"user_type", "get_option_single_string", "userType", NoTy>>,
       <<"preferred_language", "try_from_option_single_string", "preferredLanguage", "Locale">>,
       <<"locale", "try_from_option_single_string", "locale", "Locale">>,
       <<"timezone", "try_from_option_single_string", "timezone", "Timezone">>,
       <<"active", "get_single_bool", "active", NoTy>>,
       <<"password", "get_option_single_string", "password", NoTy>>,
       <<"emails", "get_option_multi_complex", "emails", "MultiValueAttr">>,
       <<"ims", "get_option_multi_complex", "ims", "MultiValueAttr">>,
       <<"phone_numbers", "get_option_multi_complex", "phoneNumbers", "MultiValueAttr">>,
       <<"photos", "get_option_multi_complex", "photos", "Photo">>,
       <<"addresses", "get_option_multi_complex", "photos", "Address">>,
       <<"groups", "get_option_multi_complex", "groups", "UserGroup">>,
       <<"entitlements", "get_option_multi_complex", "entitlements", "MultiValueAttr">>,
       <<"roles", "get_option_multi_complex", "roles", "MultiValueAttr">>,
       <<"x509certificates", "get_option_multi_complex", "x509Certificates", "Binary">> >>

User_try_from(value, dbg) ==
    IF ~HasSchema(value.schemas, SCIM_SCHEMA_USER)
    THEN [res |-> Err("EntryMissingSchema"), attrs |-> value.attrs]
    ELSE
        Bind(TopExtract(UserLines, 1, value.attrs, NoFields, dbg), LAMBDA x :
            [res |-> IF IsOk(x.res) THEN Ok(Envelope(value) @@ x.res[2]) ELSE x.res,
             attrs |-> x.attrs])

(***************************************************************************)
(* group.rs: impl TryFrom<ScimEntry> for Group.                            *)
(***************************************************************************)
GroupLines ==
    << <<"display_name", "get_single_string", "displayName", NoTy>>,
       <<"members", "get_option_multi_complex", "members", "Member">> >>

Group_try_from(value, dbg) ==
    IF ~HasSchema(value.schemas, SCIM_SCHEMA_GROUP)
    THEN [res |-> Err("EntryMissingSchema"), attrs |-> value.attrs]
    ELSE
        Bind(TopExtract(GroupLines, 1, value.attrs, NoFields, dbg), LAMBDA x :
            [res |-> IF ~IsOk(x.res) THEN x.res
                     ELSE IF dbg /\ DOMAIN x.attrs # {} THEN Panic
                     ELSE Ok(Envelope(value) @@ x.res[2]),
             attrs |-> x.attrs])

(***************************************************************************)
(* Into<ScimComplexAttr> of the nested shapes: a run of inserts into a new *)
(* BTreeMap, the optional fields only when they are Some.  lines[i] is     *)
(* <<key, field, how the field's value is written>>.                       *)
(***************************************************************************)
SubWrite(how, val) ==
    CASE how \in {"string", "opt_string"} -> <<"String", val>>
      [] how = "opt_bool"                 -> <<"Bool", val>>
      [] how \in {"url", "opt_url"}       -> <<"String", Url_to_string(val)>>
      [] how = "uuid"                     -> <<"String", Uuid_to_string(val)>>
      [] how = "base64"                   -> <<"String", Base64UrlSafeData_to_string(val)>>

RECURSIVE SubInsert(_, _, _, _)
SubInsert(lines, i, self, attrs) ==
    IF i > Len(lines) THEN [attrs |-> attrs]
    ELSE
        LET key == lines[i][1]
            val == self[lines[i][2]]
            how == lines[i][3]
            next == IF how \in {"opt_string", "opt_bool", "opt_url"}
                    THEN IF IsSome(val) THEN MapInsert(attrs, key, SubWrite(how, val[2]))
                         ELSE attrs
                    ELSE MapInsert(attrs, key, SubWrite(how, val))
        IN  Bind(next, LAMBDA a : SubInsert(lines, i + 1, self, a))

\* user.rs: impl Into<ScimComplexAttr> for Name
NameInserts ==
    << <<"formatted", "formatted", "opt_string">>,
       <<"familyName", "family_name", "opt_string">>,
       <<"givenName", "given_name", "opt_string">>,
       <<"middleName", "middle_name", "opt_string">>,
       <<"honorificPrefix", "honorific_prefix", "opt_string">>,
       <<"honorificSuffix", "honorific_suffix", "opt_string">> >>
Name_into(self) == SubInsert(NameInserts, 1, self, EmptyMap)

\* user.rs: impl Into<ScimComplexAttr> for MultiValueAttr
MultiValueAttrInserts ==
    << <<"type", "type_", "opt_string">>,
       <<"primary", "primary", "opt_bool">>,
       <<"display", "display", "opt_string">>,
       <<"$ref", "ref_", "opt_url">>,
       <<"value", "value", "string">> >>
MultiValueAttr_into(self) == SubInsert(MultiValueAttrInserts, 1, self, EmptyMap)

\* user.rs: impl Into<ScimComplexAttr> for Photo
PhotoInserts ==
    << <<"type", "type_", "opt_string">>,
       <<"primary", "primary", "opt_bool">>,
       <<"display", "display", "opt_string">>,
       <<"$ref", "ref_", "opt_url">>,
       <<"value", "value", "url">> >>
Photo_into(self) == SubInsert(PhotoInserts, 1, self, EmptyMap)

\* user.rs: impl Into<ScimComplexAttr> for Binary
BinaryInserts ==
    << <<"type", "type_", "opt_string">>,
       <<"primary", "primary", "opt_bool">>,
       <<"display", "display", "opt_string">>,
       <<"$ref", "ref_", "opt_url">>,
       <<"value", "value", "base64">> >>
Binary_into(self) == SubInsert(BinaryInserts, 1, self, EmptyMap)

\* user.rs: impl Into<ScimComplexAttr> for Address
AddressInserts ==
    << <<"type", "type_", "opt_string">>,
       <<"primary", "primary", "opt_bool">>,
       <<"formatted", "formatted", "opt_string">>,
       <<"streetAddress", "street_address", "opt_string">>,
       <<"locality", "locality", "opt_string">>,
       <<"region", "region", "opt_string">>,
       <<"postalCode", "postal_code", "opt_string">>,
       <<"country", "country", "opt_string">> >>
Address_into(self) == SubInsert(AddressInserts, 1, self, EmptyMap)

\* user.rs: impl Into<ScimComplexAttr> for Group (a user's group reference)
UserGroupInserts ==
    << <<"type", "type_", "opt_string">>,
       <<"display", "display", "string">>,
       <<"$ref", "ref_", "url">>,
       <<"value", "value", "uuid">> >>
UserGroup_into(self) == SubInsert(UserGroupInserts, 1, self, EmptyMap)

\* group.rs: impl Into<ScimComplexAttr> for Member
MemberInserts ==
    << <<"display", "display", "string">>,
       <<"$ref", "ref_", "url">>,
       <<"value", "value", "uuid">> >>
Member_into(self) == SubInsert(MemberInserts, 1, self, EmptyMap)

\* val.into() of set_option_complex! and set_multi_complex!
Shape_into(ty, self) ==
    CASE ty = "Name"           -> Name_into(self)
      [] ty = "MultiValueAttr" -> MultiValueAttr_into(self)
      [] ty = "Photo"          -> Photo_into(self)
      [] ty = "Binary"         -> Binary_into(self)
      [] ty = "Address"        -> Address_into(self)
      [] ty = "UserGroup"      -> UserGroup_into(self)
      [] ty = "Member"         -> Member_into(self)

\* val.to_string() of set_option_to_string!
Text_to_string(ty, val) ==
    CASE ty = "Url"      -> Url_to_string(val)
      [] ty = "Locale"   -> Locale_to_string(val)
      [] ty = "Timezone" -> Timezone_to_string(val)
      [] ty = "String"   -> val

(***************************************************************************)
(* macros.rs: the set_ macros, on the BTreeMap<String, ScimAttr> being     *)
(* built.                                                                  *)
(***************************************************************************)
set_bool(value_attrs, key, val) ==
    MapInsert(value_attrs, key, SingleSimple(<<"Bool", val>>))

set_string(value_attrs, key, val) ==
    MapInsert(value_attrs, key, SingleSimple(<<"String", val>>))

set_option_string(value_attrs, key, val) ==
    IF IsSome(val) THEN MapInsert(value_attrs, key, SingleSimple(<<"String", val[2]>>))
    ELSE value_attrs

set_option_to_string(value_attrs, key, val, ty) ==
    IF IsSome(val)
    THEN MapInsert(value_attrs, key, SingleSimple(<<"String", Text_to_string(ty, val[2])>>))
    ELSE value_attrs

set_option_complex(value_attrs, key, val, ty) ==
    IF IsSome(val) THEN MapInsert(value_attrs, key, SingleComplex(Shape_into(ty, val[2])))
    ELSE value_attrs

set_multi_complex(value_attrs, key, val, ty) ==
    IF Len(val) # 0
    THEN MapInsert(value_attrs, key,
                   MultiComplex([i \in DOMAIN val |-> Shape_into(ty, val[i])]))
    ELSE value_attrs

TopSet(macro, value_attrs, key, val, ty) ==
    CASE macro = "set_bool" -> set_bool(value_attrs, key, val)
      [] macro = "set_string" -> set_string(value_attrs, key, val)
      [] macro = "set_option_string" -> set_option_string(value_attrs, key, val)
      [] macro = "set_option_to_string" -> set_option_to_string(value_attrs, key, val, ty)
      [] macro = "set_option_complex" -> set_option_complex(value_attrs, key, val, ty)
      [] macro = "set_multi_complex" -> set_multi_complex(value_attrs, key, val, ty)

\* The run of set_ lines of a resource's into; lines[i] is
\* <<macro, key, field, ty>>.
RECURSIVE TopInsert(_, _, _, _)
TopInsert(lines, i, self, attrs) ==
    IF i > Len(lines) THEN attrs
    ELSE Bind(TopSet(lines[i][1], attrs, lines[i][2], self[lines[i][3]], lines[i][4]),
              LAMBDA a : TopInsert(lines, i + 1, self, a))

\* user.rs: impl Into<ScimEntry> for User
UserSets ==
    << <<"set_string", "userName", "user_name", NoTy>>,
       <<"set_option_complex", "name", "name", "Name">>,
       <<"set_option_string", "displayName", "display_name", NoTy>>,
       <<"set_option_string", "nickName", "nick_name", NoTy>>,
       <<"set_option_to_string", "profileUrl", "profile_url", "Url">>,
       <<"set_option_string", "title", "title", NoTy>>,
       <<"set_option_string", "userType", "user_type", NoTy>>,
       <<"set_option_to_string", "preferredLanguage", "preferred_language", "Locale">>,
       <<"set_option_to_string", "locale", "locale", "Locale">>,
       <<"set_option_to_string", "timezone", "timezone", "Timezone">>,
       <<"set_bool", "active", "active", NoTy>>,
       <<"set_option_to_string", "password", "password", "String">>,
       <<"set_multi_complex", "emails", "emails", "MultiValueAttr">>,
       <<"set_multi_complex", "phoneNumbers", "phone_numbers", "MultiValueAttr">>,
       <<"set_multi_complex", "ims", "ims", "MultiValueAttr">>,
       <<"set_multi_complex", "photos", "photos", "Photo">>,
       <<"set_multi_complex", "addresses", "addresses", "Address">>,
       <<"set_multi_complex", "groups", "groups", "UserGroup">>,
       <<"set_multi_complex", "entitlements", "entitlements", "MultiValueAttr">>,
       <<"set_multi_complex", "roles", "roles", "MultiValueAttr">>,
       <<"set_multi_complex", "x509certificates", "x509certificates", "Binary">> >>

\* A converter that writes the URN of the other resource.
User_into_other_urn(self) ==
    [schemas     |-> <<SCIM_SCHEMA_GROUP>>,
     id          |-> self.id,
     external_id |-> self.external_id,
     meta        |-> self.meta,
     attrs       |-> TopInsert(UserSets, 1, self, EmptyMap)]

User_into(self) ==
    [schemas     |-> <<SCIM_SCHEMA_USER>>,
     id          |-> self.id,
     external_id |-> self.external_id,
     meta        |-> self.meta,
     attrs       |-> TopInsert(UserSets, 1, self, EmptyMap)]

\* group.rs: impl Into<ScimEntry> for Group
GroupSets ==
    << <<"set_string", "displayName", "display_name", NoTy>>,
       <<"set_multi_complex", "members", "members", "Member">> >>

Group_into(self) ==
    [schemas     |-> <<SCIM_SCHEMA_GROUP>>,
     id          |-> self.id,
     external_id |-> self.external_id,
     meta        |-> self.meta,
     attrs       |-> TopInsert(GroupSets, 1, self, EmptyMap)]

(***************************************************************************)
(* The entries the resource converters are run on: a complete user, a      *)
(* minimal user and a group, shaped after the examples of RFC 7643, each   *)
(* changed up to MaxEdits times by putting a value under an attribute key, *)
(* removing a key or replacing the schema list.                            *)
(***************************************************************************)
MaxEdits == 1

Str(s) == <<"String", s>>
Bool(b) == <<"Bool", b>>
Complex(map) == [attrs |-> map]

PlainText == "bjensen@example.com"
UrlText == "https://example.com/Users/2819c223"
UrlTextUpper == "HTTPS://EXAMPLE.COM/Users/2819c223"
UuidText == "2819c223-7f76-453a-919d-413861904646"
UuidTextUpper == "2819C223-7F76-453A-919D-413861904646"
CertText == "MIID-zCC"
CertTextStd == "MIID+zCC"

\* Complex attributes in canonical form, as the examples carry them.
cName ==
    Complex(("formatted" :> Str("Ms. Barbara J Jensen III"))
            @@ ("familyName" :> Str("Jensen")) @@ ("givenName" :> Str("Barbara")))
cEmail ==
    Complex(("value" :> Str(PlainText)) @@ ("type" :> Str("work"))
            @@ ("primary" :> Bool(TRUE)))
cEmailHome == Complex(("value" :> Str("babs@jensen.org")) @@ ("type" :> Str("home")))
cPhoto == Complex(("value" :> Str(UrlText)) @@ ("type" :> Str("photo")))
cAddress ==
    Complex(("type" :> Str("work")) @@ ("country" :> Str("USA"))
            @@ ("primary" :> Bool(TRUE)))
cGroup ==
    Complex(("display" :> Str("Tour Guides")) @@ ("value" :> Str(UuidText))
            @@ ("$ref" :> Str(UrlText)))
cCert == Complex("value" :> Str(CertText))

\* Complex attributes a payload may carry instead.
cPhotoUpper == Complex(("value" :> Str(UrlTextUpper)) @@ ("type" :> Str("photo")))
cCertStd == Complex("value" :> Str(CertTextStd))
cGroupUpper ==
    Complex(("display" :> Str("Tour Guides")) @@ ("value" :> Str(UuidTextUpper))
            @@ ("$ref" :> Str(UrlText)))
cGroupTyped ==
    Complex(("display" :> Str("Tour Guides")) @@ ("value" :> Str(UuidText))
            @@ ("$ref" :> Str(UrlText)) @@ ("type" :> Str("direct")))
cBadPrimary == Complex(("value" :> Str(PlainText)) @@ ("primary" :> Str("yes")))
cEmpty == Complex(EmptyMap)
cGivenName == Complex("givenName" :> Str("Barbara"))
cBadGivenName == Complex("givenName" :> Bool(TRUE))
cGroupNoRef == Complex(("display" :> Str("Tour Guides")) @@ ("value" :> Str(UuidText)))
cTypeOnly == Complex("type" :> Str("work"))

ElementPool ==
    { cEmail, cPhoto, cPhotoUpper, cAddress, cGroupUpper, cGroupTyped, cCertStd,
      cBadPrimary, cEmpty }

\* The values an edit may put under any key: one of each variant.
CommonPool ==
    { SingleSimple(Str(PlainText)), SingleSimple(Str(UrlTextUpper)),
      SingleSimple(Bool(FALSE)), SingleComplex(cGivenName),
      MultiSimple(<<Str(PlainText)>>), MultiComplex(<<cEmail>>) }
\* More single complex values, put under the key of a nested structure.
NamePool ==
    { SingleComplex(cEmpty), SingleComplex(cBadGivenName), SingleComplex(cAddress) }
\* More lists of complex values, put under the keys of list-valued fields.
ListPool ==
    { MultiComplex(<<c>>) : c \in ElementPool }
    \cup { MultiComplex(<<cEmail, cBadPrimary>>), MultiComplex(<<cBadPrimary, cEmpty>>),
           MultiComplex(<<cEmpty, cBadPrimary>>) }

UserKeys ==
    { "userName", "name", "displayName", "nickName", "profileUrl", "title",
      "userType", "preferredLanguage", "locale", "timezone", "active", "password",
      "emails", "ims", "phoneNumbers", "photos", "addresses", "groups",
      "entitlements", "roles", "x509Certificates" }
GroupKeys == { "displayName", "members" }
\* A key neither schema declares.
UnknownKey == "employeeNumber"
AllKeys == UserKeys \cup GroupKeys \cup {UnknownKey}
ListKeys ==
    { "emails", "ims", "phoneNumbers", "photos", "addresses", "groups",
      "entitlements", "roles", "x509Certificates", "members" }
ValuesFor(k) ==
    CommonPool
    \cup (IF k = "name" THEN NamePool ELSE {})
    \cup (IF k \in ListKeys THEN ListPool ELSE {})

ExtensionUrn == "urn:ietf:params:scim:schemas:extension:enterprise:2.0:User"
SchemaLists ==
    { <<>>, <<SCIM_SCHEMA_USER>>, <<SCIM_SCHEMA_GROUP>>, <<ExtensionUrn>>,
      <<ExtensionUrn, SCIM_SCHEMA_USER>>, <<SCIM_SCHEMA_GROUP, ExtensionUrn>>,
      <<SCIM_SCHEMA_USER, SCIM_SCHEMA_GROUP>>,
      <<SCIM_SCHEMA_USER, ExtensionUrn, SCIM_SCHEMA_USER>>,
      <<SCIM_SCHEMA_GROUP, SCIM_SCHEMA_GROUP>> }

EntryId == [hyphenated |-> UuidText]
Meta1 ==
    [resource_type |-> "User", created |-> "2010-01-23T04:56:22Z",
     last_modified |-> "2011-05-13T04:42:34Z",
     location |-> [serialization |-> UrlText], version |-> "W/a330bc54f0671c9"]

FullUser ==
    [schemas |-> <<SCIM_SCHEMA_USER>>, id |-> EntryId,
     external_id |-> Some("701984"), meta |-> Some(Meta1),
     attrs |->
        ("userName" :> SingleSimple(Str(PlainText)))
        @@ ("name" :> SingleComplex(cName))
        @@ ("displayName" :> SingleSimple(Str("Babs Jensen")))
        @@ ("nickName" :> SingleSimple(Str("Babs")))
        @@ ("profileUrl" :> SingleSimple(Str(UrlText)))
        @@ ("title" :> SingleSimple(Str("Tour Guide")))
        @@ ("userType" :> SingleSimple(Str("Employee")))
        @@ ("preferredLanguage" :> SingleSimple(Str("en-US")))
        @@ ("locale" :> SingleSimple(Str("en-US")))
        @@ ("timezone" :> SingleSimple(Str("America/Los_Angeles")))
        @@ ("active" :> SingleSimple(Bool(TRUE)))
        @@ ("password" :> SingleSimple(Str("t1meMa$heen")))
        @@ ("emails" :> MultiComplex(<<cEmail, cEmailHome>>))
        @@ ("ims" :> MultiComplex(<<cEmail>>))
        @@ ("phoneNumbers" :> MultiComplex(<<cEmailHome>>))
        @@ ("photos" :> MultiComplex(<<cPhoto>>))
        @@ ("addresses" :> MultiComplex(<<cAddress>>))
        @@ ("groups" :> MultiComplex(<<cGroup>>))
        @@ ("entitlements" :> MultiComplex(<<cEmailHome>>))
        @@ ("roles" :> MultiComplex(<<cEmail>>))
        @@ ("x509Certificates" :> MultiComplex(<<cCert>>))]

MinimalUser ==
    [schemas |-> <<SCIM_SCHEMA_USER>>, id |-> EntryId,
     external_id |-> None, meta |-> None,
     attrs |->
        ("userName" :> SingleSimple(Str(PlainText)))
        @@ ("active" :> SingleSimple(Bool(TRUE)))]

FullGroup ==
    [schemas |-> <<SCIM_SCHEMA_GROUP>>, id |-> EntryId,
     external_id |-> None, meta |-> Some(Meta1),
     attrs |->
        ("displayName" :> SingleSimple(Str("Tour Guides")))
        @@ ("members" :> MultiComplex(<<cGroup, cGroup>>))]

\* A user with defects in several fields.
DefectiveUser ==
    [schemas |-> <<SCIM_SCHEMA_USER>>, id |-> EntryId,
     external_id |-> None, meta |-> None,
     attrs |->
        ("userName" :> SingleSimple(Str(PlainText)))
        @@ ("active" :> SingleSimple(Bool(TRUE)))
        @@ ("password" :> SingleSimple(Bool(FALSE)))
        @@ ("addresses" :> SingleSimple(Bool(FALSE)))
        @@ ("roles" :> MultiComplex(<<cEmpty, cBadPrimary>>))]

BaseEntries == { FullUser, MinimalUser, FullGroup, DefectiveUser }

\* The complex attributes the nested shapes are run on directly.
ScaPool ==
    ElementPool \cup { cName, cGivenName, cBadGivenName, cGroup, cCert, cGroupNoRef, cTypeOnly }

AttrIdle == wire = VNull /\ attr = None /\ back = None /\ n = None

Init ==
    /\ AttrIdle /\ TextIdle
    /\ edits = 0 /\ kind = "-" /\ debug = FALSE
    /\ res = None /\ rest = None /\ out = None /\ redo = None
    /\ \/ pc = "entry" /\ entry \in BaseEntries /\ complex = None
       \/ pc = "sca" /\ entry = None /\ complex \in ScaPool

\* The payload carries value v under key k.
InsertAttr ==
    /\ pc = "entry" /\ edits < MaxEdits
    /\ \E k \in AllKeys : \E v \in ValuesFor(k) :
          entry' = [entry EXCEPT !.attrs = MapInsert(entry.attrs, k, v)]
    /\ edits' = edits + 1
    /\ UNCHANGED <<pc, complex, kind, debug, res, rest, out>>
    /\ UNCHANGED <<redo, attrVars, textVars>>

\* The payload does not carry key k.
RemoveAttr ==
    /\ pc = "entry" /\ edits < MaxEdits
    /\ \E k \in DOMAIN entry.attrs :
          entry' = [entry EXCEPT !.attrs = MapRemove(entry.attrs, k).attrs]
    /\ edits' = edits + 1
    /\ UNCHANGED <<pc, complex, kind, debug, res, rest, out>>
    /\ UNCHANGED <<redo, attrVars, textVars>>

\* The payload names the schemas s.
SetSchemas ==
    /\ pc = "entry" /\ edits < MaxEdits
    /\ \E s \in SchemaLists \ {entry.schemas} :
          entry' = [entry EXCEPT !.schemas = s]
    /\ edits' = edits + 1
    /\ UNCHANGED <<pc, complex, kind, debug, res, rest, out>>
    /\ UNCHANGED <<redo, attrVars, textVars>>

\* User::try_from(entry), in a build with or without debug assertions
DecodeUser ==
    /\ pc = "entry"
    /\ \E dbg \in BOOLEAN :
          \E r \in {User_try_from(entry, dbg)} :
              res' = r.res /\ rest' = r.attrs /\ debug' = dbg
    /\ kind' = "User"
    /\ pc' = "decoded"
    /\ UNCHANGED <<entry, edits, complex, out>>
    /\ UNCHANGED <<redo, attrVars, textVars>>

\* Group::try_from(entry)
DecodeGroup ==
    /\ pc = "entry"
    /\ \E dbg \in BOOLEAN :
          \E r \in {Group_try_from(entry, dbg)} :
              res' = r.res /\ rest' = r.attrs /\ debug' = dbg
    /\ kind' = "Group"
    /\ pc' = "decoded"
    /\ UNCHANGED <<entry, edits, complex, out>>
    /\ UNCHANGED <<redo, attrVars, textVars>>

\* Into<ScimEntry> for User
EncodeUser ==
    /\ pc = "decoded" /\ kind = "User" /\ IsOk(res)
    /\ out' = Some(User_into(res[2]))
    /\ pc' = "encoded"
    /\ UNCHANGED <<entry, edits, complex, kind, debug, res, rest>>
    /\ UNCHANGED <<redo, attrVars, textVars>>

\* Into<ScimEntry> for Group
EncodeGroup ==
    /\ pc = "decoded" /\ kind = "Group" /\ IsOk(res)
    /\ out' = Some(Group_into(res[2]))
    /\ pc' = "encoded"
    /\ UNCHANGED <<entry, edits, complex, kind, debug, res, rest>>
    /\ UNCHANGED <<redo, attrVars, textVars>>

\* T::try_from(sca) for a nested shape T
DecodeShape ==
    /\ pc = "sca"
    /\ \E ty \in NestedShapes, dbg \in BOOLEAN :
          /\ res' = Shape_try_from(ty, complex, dbg)
          /\ kind' = ty /\ debug' = dbg
    /\ pc' = "decoded"
    /\ UNCHANGED <<entry, edits, complex, rest, out>>
    /\ UNCHANGED <<redo, attrVars, textVars>>

\* Into<ScimComplexAttr> for a nested shape
EncodeShape ==
    /\ pc = "decoded" /\ kind \in NestedShapes /\ IsOk(res)
    /\ out' = Some(Shape_into(kind, res[2]))
    /\ pc' = "encoded"
    /\ UNCHANGED <<entry, edits, complex, kind, debug, res, rest>>
    /\ UNCHANGED <<redo, attrVars, textVars>>

\* User::try_from(out), on the entry Into<ScimEntry> produced, same build
DecodeUserAgain ==
    /\ pc = "encoded" /\ kind = "User"
    /\ redo' = Some(User_try_from(out[2], debug).res)
    /\ pc' = "redecoded"
    /\ UNCHANGED <<entry, edits, complex, kind, debug, res, rest, out>>
    /\ UNCHANGED <<attrVars, textVars>>

\* Group::try_from(out), on the entry Into<ScimEntry> produced, same build
DecodeGroupAgain ==
    /\ pc = "encoded" /\ kind = "Group"
    /\ redo' = Some(Group_try_from(out[2], debug).res)
    /\ pc' = "redecoded"
    /\ UNCHANGED <<entry, edits, complex, kind, debug, res, rest, out>>
    /\ UNCHANGED <<attrVars, textVars>>

Next ==
    \/ InsertAttr \/ RemoveAttr \/ SetSchemas
    \/ DecodeUser \/ DecodeGroup \/ EncodeUser \/ EncodeGroup
    \/ DecodeShape \/ EncodeShape
    \/ DecodeUserAgain \/ DecodeGroupAgain

Spec == Init /\ [][Next]_vars

(***************************************************************************)
(* filter.rs: the filter grammar's parsers.  A text is the sequence of its *)
(* characters.  identifier := ALPHA (ALNUM | '-' | '_')* and               *)
(* attr-path := identifier ('.' identifier)?                               *)
(***************************************************************************)
ALPHA ==
    { "a", "b", "c", "d", "e", "f", "g", "h", "i", "j", "k", "l", "m",
      "n", "o", "p", "q", "r", "s", "t", "u", "v", "w", "x", "y", "z" }
    \cup
    { "A", "B", "C", "D", "E", "F", "G", "H", "I", "J", "K", "L", "M",
      "N", "O", "P", "Q", "R", "S", "T", "U", "V", "W", "X", "Y", "Z" }
DIGIT == { "0", "1", "2", "3", "4", "5", "6", "7", "8", "9" }
NameChars == ALPHA \cup DIGIT \cup {"-", "_"}

\* pub struct AttrPath { a: String, s: Option<String> }
AttrPath(a, s) == [a |-> a, s |-> s]

\* The position after the run of name characters that starts at i.
RECURSIVE ScanNameChars(_, _)
ScanNameChars(chars, i) ==
    IF i <= Len(chars) /\ chars[i] \in NameChars THEN ScanNameChars(chars, i + 1)
    ELSE i

\* A scan that lets any name character lead.
ScanIdentifier_any_lead(chars, i) == ScanNameChars(chars, i)

\* The position after the longest identifier that starts at i; i itself when
\* none does.
ScanIdentifier(chars, i) ==
    IF i <= Len(chars) /\ chars[i] \in ALPHA THEN ScanNameChars(chars, i + 1)
    ELSE i

\* filter1::AnameParser::new().parse(text)
AnameParser_parse(chars) ==
    LET j == ScanIdentifier(chars, 1)
    IN  IF j > 1 /\ j = Len(chars) + 1 THEN Ok(SubSeq(chars, 1, j - 1))
        ELSE Err("ParseError")

\* A parser that takes any run of name characters for the sub-attribute.
AttrPathParser_parse_loose_sub(chars) ==
    LET j == ScanIdentifier(chars, 1)
    IN  IF j = 1 THEN Err("ParseError")
        ELSE IF j = Len(chars) + 1 THEN Ok(AttrPath(SubSeq(chars, 1, j - 1), None))
        ELSE IF chars[j] # "." THEN Err("ParseError")
        ELSE LET k == ScanNameChars(chars, j + 1)
             IN  IF k > j + 1 /\ k = Len(chars) + 1
                 THEN Ok(AttrPath(SubSeq(chars, 1, j - 1), Some(SubSeq(chars, j + 1, k - 1))))
                 ELSE Err("ParseError")

\* filter1::AttrPathParser::new().parse(text)
AttrPathParser_parse(chars) ==
    LET j == ScanIdentifier(chars, 1)
    IN  IF j = 1 THEN Err("ParseError")
        ELSE IF j = Len(chars) + 1 THEN Ok(AttrPath(SubSeq(chars, 1, j - 1), None))
        ELSE IF chars[j] # "." THEN Err("ParseError")
        ELSE LET k == ScanIdentifier(chars, j + 1)
             IN  IF k > j + 1 /\ k = Len(chars) + 1
                 THEN Ok(AttrPath(SubSeq(chars, 1, j - 1), Some(SubSeq(chars, j + 1, k - 1))))
                 ELSE Err("ParseError")

\* The texts the parsers are run on: every text of up to MaxQueryLen
\* characters of a small alphabet, and the texts of the tests.
MaxQueryLen == 3
QueryAlphabet == {"a", "B", "0", "-", "_", ".", ","}
AnameTestTexts ==
    { <<"a", "b", "c", "d", "-", "_">>,
      <<"a", "B", "-", "_", "C", "D">>,
      <<"a", "1", "-", "_", "2", "3">>,
      <<"-", "b", "c", "d">>,
      <<"_", "b", "c", "d">>,
      <<"0", "b", "c", "d">> }
AttrPathTestTexts ==
    { <<"a", "b", "c", "d">>,
      <<"a", "b", "c", "d", ".", "a", "b", "c", "d">>,
      <<"a", "b", "c", "d", ".", "0">>,
      <<"a", "b", "c", "d", ".", "_">>,
      <<"a", "b", "c", "d", ",", "0">>,
      <<".", "a", "b", "c", "d">> }
QueryTexts == SeqsUpTo(QueryAlphabet, MaxQueryLen) \cup AnameTestTexts \cup AttrPathTestTexts

(***************************************************************************)
(* Filter expressions.  ScimFilter is the parser's result type; the        *)
(* generated parser filter1::AttrExpParser follows the grammar             *)
(*   filter-expr := attr-path 'pr' | attr-path 'eq' value                  *)
(*   value       := quoted-string | bare-token                             *)
(* with white space separating the tokens.                                 *)
(***************************************************************************)
Present(p) == <<"Present", p>>
Equal(p, v) == <<"Equal", p, v>>

SPACE == " "
QUOTE == "\""

\* the maximal runs of non-space characters of chars, in order
RECURSIVE SplitTokens(_, _, _)
SplitTokens(chars, i, cur) ==
    IF i > Len(chars)
    THEN IF cur = <<>> THEN <<>> ELSE <<cur>>
    ELSE IF chars[i] = SPACE
         THEN (IF cur = <<>> THEN <<>> ELSE <<cur>>) \o SplitTokens(chars, i + 1, <<>>)
         ELSE SplitTokens(chars, i + 1, Append(cur, chars[i]))

\* value := quoted-string | bare-token
ValueToken_parse(tok) ==
    IF Len(tok) >= 2 /\ tok[1] = QUOTE /\ tok[Len(tok)] = QUOTE
       /\ \A i \in 2..(Len(tok) - 1) : tok[i] # QUOTE
    THEN Ok(VString(SubSeq(tok, 2, Len(tok) - 1)))
    ELSE IF tok # <<>> /\ \A i \in 1..Len(tok) : tok[i] # QUOTE
         THEN Ok(VString(tok))
         ELSE Err("ParseError")

\* variant: an operand after 'pr' is skipped
AttrExpParser_parse_pr_operand(chars) ==
    LET toks == SplitTokens(chars, 1, <<>>)
        path == IF toks = <<>> THEN Err("ParseError") ELSE AttrPathParser_parse(toks[1])
    IN  IF Len(toks) \in {2, 3} /\ toks[2] = <<"p", "r">> /\ IsOk(path)
        THEN Ok(Present(path[2]))
        ELSE IF Len(toks) = 3 /\ toks[2] = <<"e", "q">> /\ IsOk(path)
                /\ IsOk(ValueToken_parse(toks[3]))
             THEN Ok(Equal(path[2], ValueToken_parse(toks[3])[2]))
             ELSE Err("ParseError")

\* filter1::AttrExpParser::new().parse(chars)
AttrExpParser_parse(chars) ==
    LET toks == SplitTokens(chars, 1, <<>>)
        path == IF toks = <<>> THEN Err("ParseError") ELSE AttrPathParser_parse(toks[1])
    IN  IF Len(toks) = 2 /\ toks[2] = <<"p", "r">> /\ IsOk(path)
        THEN Ok(Present(path[2]))
        ELSE IF Len(toks) = 3 /\ toks[2] = <<"e", "q">> /\ IsOk(path)
                /\ IsOk(ValueToken_parse(toks[3]))
             THEN Ok(Equal(path[2], ValueToken_parse(toks[3])[2]))
             ELSE Err("ParseError")

\* filter texts: up to MaxTokens tokens joined by single spaces, and the
\* texts of test_scimfilter_pres and test_scimfilter_eq
MaxTokens == 3
FilterTokens ==
    { <<"a">>, <<"a", ".", "B">>, <<"a", ".", "0">>, <<"p", "r">>, <<"e", "q">>,
      <<"d", "c", "b", "a">>, <<QUOTE, "x", QUOTE>> }
RECURSIVE JoinTokens(_)
JoinTokens(ts) ==
    IF ts = <<>> THEN <<>>
    ELSE IF Len(ts) = 1 THEN ts[1]
    ELSE ts[1] \o <<SPACE>> \o JoinTokens(Tail(ts))
FilterTestTexts ==
    { <<"a", "b", "c", "d", " ", "p", "r">>,
      <<"a", "b", "c", "d", " ", "e", "q", " ", "d", "c", "b", "a">> }
FilterTexts ==
    { JoinTokens(ts) : ts \in SeqsUpTo(FilterTokens, MaxTokens) } \cup FilterTestTexts

(***************************************************************************)
(* The text parsers, run on their own.                                     *)
(***************************************************************************)
Locales ==
    {"Locale::en", "Locale::en_AU", "Locale::en_US", "Locale::de", "Locale::de_DE"}
\* Language tags, well-formed and not, put together from their parts.
LanguageParts == {"en", "de", "EN", "fr", "e", ""}
SeparatorParts == {"", "-", "_"}
RegionParts == {"", "AU", "US", "DE", "au", "GB"}
LocaleTexts ==
    { l \o p \o r : l \in LanguageParts, p \in SeparatorParts, r \in RegionParts }

\* A text to parse, or a Locale built directly.
InitText ==
    /\ AttrIdle /\ EntryIdle
    /\ shown = None /\ again = None
    /\ \/ pc = "text" /\ text \in { Some(t) : t \in LocaleTexts } /\ parsed = None
       \/ pc = "locale" /\ text = None /\ parsed \in { Some(Ok(l)) : l \in Locales }
       \/ pc = "query" /\ text \in { Some(t) : t \in QueryTexts } /\ parsed = None
       \/ pc = "filter" /\ text \in { Some(t) : t \in FilterTexts } /\ parsed = None

\* Locale::try_from(text)
ParseLocale ==
    /\ pc = "text"
    /\ parsed' = Some(Locale_try_from(text[2]))
    /\ pc' = "locale"
    /\ UNCHANGED <<text, shown, again>>
    /\ UNCHANGED <<attrVars, entryVars>>

\* locale.to_string()
DisplayLocale ==
    /\ pc = "locale" /\ IsOk(parsed[2])
    /\ shown' = Some(Locale_to_string(parsed[2][2]))
    /\ pc' = "locale_shown"
    /\ UNCHANGED <<text, parsed, again>>
    /\ UNCHANGED <<attrVars, entryVars>>

\* Locale::try_from(locale.to_string())
ParseLocaleAgain ==
    /\ pc = "locale_shown"
    /\ again' = Some(Locale_try_from(shown[2]))
    /\ pc' = "locale_again"
    /\ UNCHANGED <<text, parsed, shown>>
    /\ UNCHANGED <<attrVars, entryVars>>

\* AnameParser::new().parse(text)
ParseAname ==
    /\ pc = "query"
    /\ parsed' = Some(AnameParser_parse(text[2]))
    /\ pc' = "aname"
    /\ UNCHANGED <<text, shown, again>>
    /\ UNCHANGED <<attrVars, entryVars>>

\* AttrPathParser::new().parse(text)
ParseAttrPath ==
    /\ pc = "query"
    /\ parsed' = Some(AttrPathParser_parse(text[2]))
    /\ pc' = "attrpath"
    /\ UNCHANGED <<text, shown, again>>
    /\ UNCHANGED <<attrVars, entryVars>>

\* AttrExpParser::new().parse(text)
ParseAttrExp ==
    /\ pc = "filter"
    /\ parsed' = Some(AttrExpParser_parse(text[2]))
    /\ pc' = "attrexp"
    /\ UNCHANGED <<text, shown, again>>
    /\ UNCHANGED <<attrVars, entryVars>>

NextText ==
    \/ ParseLocale \/ DisplayLocale \/ ParseLocaleAgain
    \/ ParseAname \/ ParseAttrPath \/ ParseAttrExp

SpecText == InitText /\ [][NextText]_vars

(***************************************************************************)
(* Vocabulary of the claims about the classification.                      *)
(***************************************************************************)
WireKinds == {"VNull", "VBool", "VNumber", "VString", "VArray", "VObject"}
IsWireScalar(v) == v[1] \in {"VString", "VBool", "VNumber"}
IsSimple(x) ==
    \/ x[1] = "String" /\ x[2] \in STRING
    \/ x[1] = "Bool" /\ x[2] \in BOOLEAN
    \/ x[1] = "Number" /\ x[2] \in Int
IsComplex(c) == \A k \in DOMAIN c.attrs : IsSimple(c.attrs[k])

\* The AttributeValue a wire scalar stands for.
SimpleTag == [t \in {"VString", "VBool", "VNumber"} |->
                 CASE t = "VString" -> "String"
                   [] t = "VBool" -> "Bool"
                   [] t = "VNumber" -> "Number"]
SimpleOf(v) == <<SimpleTag[v[1]], v[2]>>
\* The ComplexAttribute a wire object of scalars stands for.
ComplexOf(v) == [attrs |-> [k \in DOMAIN v[2] |-> SimpleOf(v[2][k])]]
\* A wire object all of whose members are scalars.
IsFlatObject(v) ==
    v[1] = "VObject" /\ \A k \in DOMAIN v[2] : IsWireScalar(v[2][k])
\* A wire object with a null, object or array member.
IsDeepObject(v) ==
    v[1] = "VObject" /\ \E k \in DOMAIN v[2] : ~IsWireScalar(v[2][k])

(* C2: whenever ScimAttr::try_from(v) succeeds with a, converting a back   *)
(* gives exactly v; and the conversion back returns a wire value for every *)
(* ScimAttr, those built directly (empty multi-valued ones too) included.  *)
C2_RoundTrip ==
    /\ pc = "returned" => back = Some(wire)
    /\ pc \in {"returned", "serialised"} =>
          IsSome(back) /\ back[2][1] \in WireKinds

C2_Witness ==
    /\ pc = "returned"
    /\ wire[1] = "VArray" /\ Len(wire[2]) = 2
    /\ wire[2][1][1] = "VObject" /\ DOMAIN wire[2][1][2] = MemberKeys
    /\ back = Some(wire)

(* C3, as stated: every wire value is classified by the table alone: an    *)
(* array whose element 0 is an object yields MultiComplex with one element *)
(* per wire element, an array whose element 0 is of any other kind yields  *)
(* MultiSimple with one element per wire element, an object yields         *)
(* SingleComplex, a string, boolean or number yields SingleSimple.         *)
C3_AsStated ==
    pc = "classified" =>
        IF wire[1] = "VArray" THEN
            IF Len(wire[2]) = 0 THEN attr = Err("EmptyMultiValue")
            ELSE IF wire[2][1][1] = "VArray" THEN attr = Err("NestedMultiValue")
            ELSE IF wire[2][1][1] = "VObject" THEN
                /\ IsOk(attr) /\ attr[2][1] = "MultiComplex"
                /\ Len(attr[2][2]) = Len(wire[2])
            ELSE
                /\ IsOk(attr) /\ attr[2][1] = "MultiSimple"
                /\ Len(attr[2][2]) = Len(wire[2])
        ELSE IF wire[1] = "VObject" THEN IsOk(attr) /\ attr[2][1] = "SingleComplex"
        ELSE IF wire[1] = "VNull" THEN attr = Err("InvalidSingleValue")
        ELSE IsOk(attr) /\ attr[2][1] = "SingleSimple"

(* C3, amended: the table gives the arm; the arm's result is the stated    *)
(* variant, element by element in order, when every element (every member  *)
(* of an object) converts, and an error otherwise.  An array whose element *)
(* 0 is null takes the MultiSimple arm and so fails InvalidSingleValue.    *)
C3_Table ==
    pc = "classified" =>
        IF wire[1] = "VArray" THEN
            IF Len(wire[2]) = 0 THEN attr = Err("EmptyMultiValue")
            ELSE IF wire[2][1][1] = "VArray" THEN attr = Err("NestedMultiValue")
            ELSE IF wire[2][1][1] = "VObject" THEN
                IF \A i \in DOMAIN wire[2] : IsFlatObject(wire[2][i])
                THEN attr = Ok(MultiComplex([i \in DOMAIN wire[2] |-> ComplexOf(wire[2][i])]))
                ELSE IsErr(attr)
            ELSE
                IF \A i \in DOMAIN wire[2] : IsWireScalar(wire[2][i])
                THEN attr = Ok(MultiSimple([i \in DOMAIN wire[2] |-> SimpleOf(wire[2][i])]))
                ELSE attr = Err("InvalidSingleValue")
        ELSE IF wire[1] = "VObject" THEN
            IF IsFlatObject(wire) THEN attr = Ok(SingleComplex(ComplexOf(wire)))
            ELSE attr = Err("InvalidSingleValue")
        ELSE IF wire[1] = "VNull" THEN attr = Err("InvalidSingleValue")
        ELSE attr = Ok(SingleSimple(SimpleOf(wire)))

C3_Witness ==
    /\ pc = "classified"
    /\ wire[1] = "VArray" /\ Len(wire[2]) = 2
    /\ wire[2][1][1] = "VObject" /\ wire[2][2][1] = "VObject"
    /\ DOMAIN wire[2][2][2] = MemberKeys
    /\ IsOk(attr) /\ attr[2][1] = "MultiComplex" /\ Len(attr[2][2]) = 2

\* The heterogeneous cases C4 names.
LaterNonObject(v) ==
    /\ v[1] = "VArray" /\ Len(v[2]) > 0 /\ v[2][1][1] = "VObject"
    /\ \E i \in 2..Len(v[2]) : v[2][i][1] # "VObject"
LaterNonScalar(v) ==
    /\ v[1] = "VArray" /\ Len(v[2]) > 0 /\ IsWireScalar(v[2][1])
    /\ \E i \in 2..Len(v[2]) : ~IsWireScalar(v[2][i])
DeepElement(v) ==
    /\ v[1] = "VArray" /\ Len(v[2]) > 0 /\ v[2][1][1] = "VObject"
    /\ \E i \in DOMAIN v[2] : IsDeepObject(v[2][i])

(* C4, as stated: element 0 an object and a later element not an object   *)
(* fails InconsistentMultiValue; element 0 a scalar and a later element    *)
(* null, object or array fails InvalidSingleValue; an object element at    *)
(* any position, or a single object, with a null, object or array member   *)
(* fails InvalidSingleValue.                                               *)
C4_AsStated ==
    pc = "classified" =>
        /\ LaterNonObject(wire) => attr = Err("InconsistentMultiValue")
        /\ LaterNonScalar(wire) => attr = Err("InvalidSingleValue")
        /\ DeepElement(wire) => attr = Err("InvalidSingleValue")
        /\ IsDeepObject(wire) => attr = Err("InvalidSingleValue")

(* C4, amended: in each of these cases the conversion fails and returns no *)
(* ScimAttr, and the error is that of the first offending element in array *)
(* order: InconsistentMultiValue when that element is not an object,       *)
(* InvalidSingleValue when it is an object with a null, object or array    *)
(* member (and always InvalidSingleValue when element 0 is a scalar or the *)
(* value is a single object).                                              *)
C4_FirstOffender ==
    pc = "classified" =>
        /\ LaterNonObject(wire) \/ DeepElement(wire) =>
              LET off == { i \in DOMAIN wire[2] : ~IsFlatObject(wire[2][i]) }
                  first == CHOOSE i \in off : \A j \in off : i <= j
              IN  attr = IF wire[2][first][1] = "VObject"
                         THEN Err("InvalidSingleValue")
                         ELSE Err("InconsistentMultiValue")
        /\ LaterNonScalar(wire) => attr = Err("InvalidSingleValue")
        /\ IsDeepObject(wire) => attr = Err("InvalidSingleValue")

C4_Witness ==
    /\ pc = "classified"
    /\ LaterNonObject(wire) /\ DeepElement(wire)
    /\ IsDeepObject(wire[2][1])
    /\ attr = Err("InvalidSingleValue")

(* C5: every ScimAttr that ScimAttr::try_from returns has at least one     *)
(* element when it is multi-valued, holds only scalars (MultiSimple) or    *)
(* only maps of names to scalars (MultiComplex, SingleComplex), and len()  *)
(* is 1 for the single variants and the sequence length for the multi      *)
(* ones.                                                                   *)
C5_Shape ==
    pc \in {"classified", "returned"} /\ IsOk(attr) =>
        LET a == attr[2] IN
        /\ a[1] \in {"SingleSimple", "SingleComplex", "MultiSimple", "MultiComplex"}
        /\ a[1] = "SingleSimple" => IsSimple(a[2]) /\ (IsSome(n) => n[2] = 1)
        /\ a[1] = "SingleComplex" => IsComplex(a[2]) /\ (IsSome(n) => n[2] = 1)
        /\ a[1] = "MultiSimple" =>
              /\ Len(a[2]) >= 1
              /\ \A i \in DOMAIN a[2] : IsSimple(a[2][i])
              /\ IsSome(n) => n[2] = Len(a[2])
        /\ a[1] = "MultiComplex" =>
              /\ Len(a[2]) >= 1
              /\ \A i \in DOMAIN a[2] : IsComplex(a[2][i])
              /\ IsSome(n) => n[2] = Len(a[2])

C5_Witness ==
    /\ pc = "classified" /\ IsOk(attr)
    /\ attr[2][1] = "MultiComplex" /\ n = Some(2)
    /\ DOMAIN attr[2][2][2].attrs = MemberKeys

(***************************************************************************)
(* Vocabulary of the claims about the typed resources.                     *)
(***************************************************************************)
Resources == {"User", "Group"}
OwningUrn(k) == IF k = "User" THEN SCIM_SCHEMA_USER ELSE SCIM_SCHEMA_GROUP
\* The attribute keys the schema of a resource recognizes.
RecognizedKeys(k) == IF k = "User" THEN UserKeys ELSE GroupKeys

\* The list-valued User fields: <<key, field, nested shape>>.
UserListFields ==
    { <<"emails", "emails", "MultiValueAttr">>,
      <<"phoneNumbers", "phone_numbers", "MultiValueAttr">>,
      <<"ims", "ims", "MultiValueAttr">>,
      <<"photos", "photos", "Photo">>,
      <<"addresses", "addresses", "Address">>,
      <<"groups", "groups", "UserGroup">>,
      <<"entitlements", "entitlements", "MultiValueAttr">>,
      <<"roles", "roles", "MultiValueAttr">>,
      <<"x509Certificates", "x509certificates", "Binary">> }

(* C1: for every entry that decodes to a User or a Group, the entry the    *)
(* decoded resource encodes to has the id, externalId and meta of the      *)
(* input, exactly the owning URN as its schemas, and every recognized key  *)
(* of the input under the same name with the same value.                   *)
C1_RoundTrip ==
    pc = "encoded" /\ kind \in Resources =>
        /\ out[2].id = entry.id
        /\ out[2].external_id = entry.external_id
        /\ out[2].meta = entry.meta
        /\ out[2].schemas = <<OwningUrn(kind)>>
        /\ \A k \in DOMAIN entry.attrs \cap RecognizedKeys(kind) :
              k \in DOMAIN out[2].attrs /\ out[2].attrs[k] = entry.attrs[k]

(* C6: a decode to User (to Group) returns EntryMissingSchema exactly when *)
(* the User (Group) URN is at no position of the entry's schemas list,     *)
(* whatever the attribute map holds and whatever else the list names.      *)
C6_SchemaEnforced ==
    pc = "decoded" /\ kind \in Resources =>
        (res = Err("EntryMissingSchema"))
            <=> (\A i \in DOMAIN entry.schemas : entry.schemas[i] # OwningUrn(kind))

C6_Witness ==
    /\ pc = "decoded" /\ kind = "User"
    /\ entry.schemas = <<SCIM_SCHEMA_GROUP>>
    /\ "userName" \notin DOMAIN entry.attrs
    /\ res = Err("EntryMissingSchema")

\* Entry e is entry b with some of its attribute keys left out.
OmitsFrom(e, b) ==
    /\ DOMAIN e.attrs \subseteq DOMAIN b.attrs
    /\ e = [b EXCEPT !.attrs = [k \in DOMAIN e.attrs |-> b.attrs[k]]]
\* Complex attribute c is complex attribute b with some sub-attributes left out.
OmitsFromComplex(c, b) ==
    /\ DOMAIN c.attrs \subseteq DOMAIN b.attrs
    /\ c = [attrs |-> [k \in DOMAIN c.attrs |-> b.attrs[k]]]

\* The required keys of the resources and of the nested shapes.
RequiredKeys ==
    [ User |-> {"userName", "active"}, Group |-> {"displayName"},
      Name |-> {}, Address |-> {},
      MultiValueAttr |-> {"value"}, Photo |-> {"value"}, Binary |-> {"value"},
      UserGroup |-> {"display", "value", "$ref"},
      Member |-> {"display", "value", "$ref"} ]
\* The optional scalar and nested fields of a User: <<key, field>>.
UserOptionalFields ==
    { <<"name", "name">>, <<"displayName", "display_name">>,
      <<"nickName", "nick_name">>, <<"profileUrl", "profile_url">>,
      <<"title", "title">>, <<"userType", "user_type">>,
      <<"preferredLanguage", "preferred_language">>, <<"locale", "locale">>,
      <<"timezone", "timezone">>, <<"password", "password">> }
\* The optional sub-attributes of the nested shapes: <<key, field>>.
ShapeOptionalFields ==
    [ Name |-> { <<"formatted", "formatted">>, <<"familyName", "family_name">>,
                 <<"givenName", "given_name">>, <<"middleName", "middle_name">>,
                 <<"honorificPrefix", "honorific_prefix">>,
                 <<"honorificSuffix", "honorific_suffix">> },
      Address |-> { <<"type", "type_">>, <<"primary", "primary">>,
                    <<"formatted", "formatted">>, <<"streetAddress", "street_address">>,
                    <<"locality", "locality">>, <<"region", "region">>,
                    <<"postalCode", "postal_code">>, <<"country", "country">> },
      MultiValueAttr |-> { <<"type", "type_">>, <<"primary", "primary">>,
                           <<"display", "display">>, <<"$ref", "ref_">> },
      Photo |-> { <<"type", "type_">>, <<"primary", "primary">>,
                  <<"display", "display">>, <<"$ref", "ref_">> },
      Binary |-> { <<"type", "type_">>, <<"primary", "primary">>,
                   <<"display", "display">>, <<"$ref", "ref_">> },
      UserGroup |-> { <<"type", "type_">> },
      Member |-> {} ]
\* A complex attribute each nested shape accepts.
WellFormed ==
    [ Name |-> cName, Address |-> cAddress, MultiValueAttr |-> cEmail,
      Photo |-> cPhoto, Binary |-> cCert, UserGroup |-> cGroup, Member |-> cGroup ]

C8_ListFromOwnKey ==
    pc = "decoded" /\ kind = "User" /\ IsOk(res) =>
        \A f \in UserListFields :
            IF f[1] \notin DOMAIN entry.attrs THEN res[2][f[2]] = <<>>
            ELSE /\ entry.attrs[f[1]][1] = "MultiComplex"
                 /\ Len(res[2][f[2]]) = Len(entry.attrs[f[1]][2])
                 /\ \A i \in DOMAIN res[2][f[2]] :
                       Shape_try_from(f[3], entry.attrs[f[1]][2][i], debug)
                           = Ok(res[2][f[2]][i])

(* C9: after a successful decode to User or Group, no key the schema       *)
(* recognizes is left in the entry's attribute map.                        *)
C9_Drained ==
    pc = "decoded" /\ kind \in Resources /\ IsOk(res) =>
        DOMAIN rest \cap RecognizedKeys(kind) = {}

(* C10: every decode, of an entry to User or Group and of a complex        *)
(* attribute to a nested shape, returns a value or one of the error kinds; *)
(* none ends in a failed assertion.                                        *)
C10_NoPanic ==
    pc = "decoded" => IsOk(res) \/ (IsErr(res) /\ res[2] \in ScimError)

\* Entry e without the attributes whose keys the schema of resource k does
\* not recognize.
KnownOnly(e, k) ==
    [e EXCEPT !.attrs = [x \in DOMAIN e.attrs \cap RecognizedKeys(k) |-> e.attrs[x]]]
\* The entry's schemas list names the URN of resource k.
NamesUrn(e, k) == \E i \in DOMAIN e.schemas : e.schemas[i] = OwningUrn(k)

(* C11: an entry with the right URN decodes, in the same build, to what    *)
(* the entry without its unrecognized attributes decodes to: the same      *)
(* resource or the same error.                                             *)
C11_UnknownIgnored ==
    pc = "decoded" /\ kind \in Resources /\ NamesUrn(entry, kind) =>
        res = IF kind = "User" THEN User_try_from(KnownOnly(entry, kind), debug).res
              ELSE Group_try_from(KnownOnly(entry, kind), debug).res

\* The shape the schema gives each attribute key.
ShapeOfKey(k) ==
    IF k \in ListKeys THEN "List"
    ELSE IF k = "name" THEN "Complex"
    ELSE IF k = "active" THEN "Bool"
    ELSE "String"
\* Attribute v does not have the shape key k expects.
WrongShape(k, v) ==
    CASE ShapeOfKey(k) = "List"    -> v[1] # "MultiComplex"
      [] ShapeOfKey(k) = "Complex" -> v[1] # "SingleComplex"
      [] ShapeOfKey(k) = "Bool"    -> ~(v[1] = "SingleSimple" /\ v[2][1] = "Bool")
      [] ShapeOfKey(k) = "String"  -> ~(v[1] = "SingleSimple" /\ v[2][1] = "String")
\* Sub-attribute value v does not have the type sub-attribute k expects.
WrongSubType(k, v) == IF k = "primary" THEN v[1] # "Bool" ELSE v[1] # "String"
\* The sub-attributes a nested shape declares.
DeclaredSubKeys(ty) == RequiredKeys[ty] \cup { f[1] : f \in ShapeOptionalFields[ty] }
\* Map m and map b hold the same values under the keys of m other than k.
AgreesBut(m, b, k) ==
    /\ DOMAIN m \ {k} \subseteq DOMAIN b
    /\ \A x \in DOMAIN m \ {k} : m[x] = b[x]

(* C12: when one declared key of an otherwise well-formed entry (one       *)
(* declared sub-attribute of an otherwise well-formed complex attribute)   *)
(* is present with a value of the wrong shape, the decode returns          *)
(* InvalidAttribute, whether the field is required or optional.            *)
C12_WrongVariant ==
    /\ pc = "decoded" /\ kind \in Resources /\ NamesUrn(entry, kind)
       /\ RequiredKeys[kind] \subseteq DOMAIN entry.attrs
       /\ (\E k \in RecognizedKeys(kind) \cap DOMAIN entry.attrs :
             /\ WrongShape(k, entry.attrs[k])
             /\ \E b \in IF kind = "User" THEN {FullUser, MinimalUser} ELSE {FullGroup} :
                   AgreesBut(entry.attrs, b.attrs, k))
       => res = Err("InvalidAttribute")
    /\ pc = "decoded" /\ kind \in NestedShapes
       /\ RequiredKeys[kind] \subseteq DOMAIN complex.attrs
       /\ (\E k \in DeclaredSubKeys(kind) \cap DOMAIN complex.attrs :
             /\ WrongSubType(k, complex.attrs[k])
             /\ AgreesBut(complex.attrs, WellFormed[kind].attrs, k))
       => res = Err("InvalidAttribute")

\* The fields of a User in the converter's order: <<key, extraction, type>>.
UserFieldOrder ==
    << <<"userName", "get_single_string", NoTy>>,
       <<"name", "get_option_single_complex", "Name">>,
       <<"displayName", "get_option_single_string", NoTy>>,
       <<"nickName", "get_option_single_string", NoTy>>,
       <<"profileUrl", "get_option_single_url", NoTy>>,
       <<"title", "get_option_single_string", NoTy>>,
       <<"userType", "get_option_single_string", NoTy>>,
       <<"preferredLanguage", "try_from_option_single_string", "Locale">>,
       <<"locale", "try_from_option_single_string", "Locale">>,
       <<"timezone", "try_from_option_single_string", "Timezone">>,
       <<"active", "get_single_bool", NoTy>>,
       <<"password", "get_option_single_string", NoTy>>,
       <<"emails", "list", "MultiValueAttr">>,
       <<"ims", "list", "MultiValueAttr">>,
       <<"phoneNumbers", "list", "MultiValueAttr">>,
       <<"photos", "list", "Photo">>,
       <<"addresses", "list", "Address">>,
       <<"groups", "list", "UserGroup">>,
       <<"entitlements", "list", "MultiValueAttr">>,
       <<"roles", "list", "MultiValueAttr">>,
       <<"x509Certificates", "list", "Binary">> >>
GroupFieldOrder ==
    << <<"displayName", "get_single_string", NoTy>>,
       <<"members", "list", "Member">> >>
\* The first outcome of a sequence of outcomes that is not Ok, if any.
FirstFailure(outs) ==
    LET bad == { i \in DOMAIN outs : ~IsOk(outs[i]) }
    IN  IF bad = {} THEN None ELSE Some(outs[MinOf(bad)])
\* The outcome of one field's extraction from map m, taken on its own; a
\* list's outcome is that of its first failing element.
OwnOutcome(m, f) ==
    IF f[2] # "list" THEN TopGet(f[2], m, f[1], f[3], FALSE).res
    ELSE IF f[1] \notin DOMAIN m THEN Ok(<<>>)
    ELSE IF m[f[1]][1] # "MultiComplex" THEN Err("InvalidAttribute")
    ELSE LET first == FirstFailure([i \in DOMAIN m[f[1]][2] |->
                                       Shape_try_from(f[3], m[f[1]][2][i], FALSE)])
         IN  IF IsSome(first) THEN first[2] ELSE Ok(<<>>)
\* The sub-attribute extractions of the nested shapes, in order.
ShapeLines ==
    [ Name |-> NameLines, MultiValueAttr |-> MultiValueAttrLines,
      Address |-> AddressLines, UserGroup |-> UserGroupLines, Member |-> MemberLines ]

(* C13: a decode returns the error of the first extraction that fails, in  *)
(* the order schema check, then the fields in the converter's order (the   *)
(* sub-attributes in the nested shape's order); a list's error is that of  *)
(* its first failing element, unchanged; and the decode succeeds only when *)
(* no extraction fails.                                                    *)
C13_FirstError ==
    /\ pc = "decoded" /\ kind \in Resources =>
          IF ~NamesUrn(entry, kind) THEN res = Err("EntryMissingSchema")
          ELSE LET order == IF kind = "User" THEN UserFieldOrder ELSE GroupFieldOrder
                   first == FirstFailure([i \in DOMAIN order |->
                                             OwnOutcome(entry.attrs, order[i])])
               IN  IF IsSome(first) THEN res = first[2] ELSE IsOk(res)
    /\ pc = "decoded" /\ kind \in DOMAIN ShapeLines =>
          LET lines == ShapeLines[kind]
              first == FirstFailure([i \in DOMAIN lines |->
                                        SubGet(lines[i][2], complex.attrs, lines[i][3]).res])
          IN  IF IsSome(first) THEN res = first[2] ELSE IsOk(res)

\* The list-valued Group field: <<key, field, nested shape>>.
GroupListFields == { <<"members", "members", "Member">> }

(* C14: in the entry a User or Group encodes to, the key of an optional    *)
(* field is present iff the field is Some, the key of a list field is      *)
(* present iff the list is non-empty and then holds a MultiComplex with    *)
(* one element per list element, the keys of the required fields are       *)
(* present, and no other key is written.                                   *)
C14_Omission ==
    pc = "encoded" /\ kind \in Resources =>
        LET attrs == out[2].attrs
            optional == IF kind = "User" THEN UserOptionalFields ELSE {}
            lists == IF kind = "User" THEN UserListFields ELSE GroupListFields
        IN  /\ \A f \in optional : f[1] \in DOMAIN attrs <=> IsSome(res[2][f[2]])
            /\ \A f \in lists :
                  /\ f[1] \in DOMAIN attrs <=> Len(res[2][f[2]]) > 0
                  /\ f[1] \in DOMAIN attrs =>
                        /\ attrs[f[1]][1] = "MultiComplex"
                        /\ Len(attrs[f[1]][2]) = Len(res[2][f[2]])
                        /\ \A i \in DOMAIN attrs[f[1]][2] :
                              attrs[f[1]][2][i] = Shape_into(f[3], res[2][f[2]][i])
            /\ RequiredKeys[kind] \subseteq DOMAIN attrs
            /\ DOMAIN attrs \subseteq RecognizedKeys(kind)

\* Attribute a is a multi-valued attribute with no element, or is or holds
\* a complex attribute with no sub-attribute.
EmptyContainer(a) ==
    CASE a[1] = "SingleSimple"  -> FALSE
      [] a[1] = "SingleComplex" -> DOMAIN a[2].attrs = {}
      [] a[1] = "MultiSimple"   -> Len(a[2]) = 0
      [] a[1] = "MultiComplex"  ->
            Len(a[2]) = 0 \/ \E i \in DOMAIN a[2] : DOMAIN a[2][i].attrs = {}

(* C15: no attribute of an entry that a User or Group encodes to is an     *)
(* empty container.                                                        *)
C15_NoEmptyContainer ==
    pc = "encoded" /\ kind \in Resources =>
        \A k \in DOMAIN out[2].attrs : ~EmptyContainer(out[2].attrs[k])

(* C16: the schemas list of the entry a User (a Group) encodes to is the   *)
(* one-element list of the User (Group) URN, whatever list the decoded     *)
(* entry named.                                                            *)
C16_SchemaNarrowed ==
    pc = "encoded" /\ kind \in Resources =>
        Len(out[2].schemas) = 1 /\ out[2].schemas[1] = OwningUrn(kind)

C16_Witness ==
    /\ pc = "encoded" /\ kind = "User"
    /\ entry.schemas = <<SCIM_SCHEMA_USER, ExtensionUrn, SCIM_SCHEMA_USER>>
    /\ out[2].schemas = <<SCIM_SCHEMA_USER>>

\* The timezone texts the claim names as recognized.
KnownTimezones == {"Australia/Brisbane", "America/Los_Angeles"}
\* The entry's only defect, if any, is in its timezone: the other keys hold
\* what a well-formed user holds.
TimezoneOnly(e) ==
    /\ "timezone" \in DOMAIN e.attrs
    /\ e.attrs["timezone"][1] = "SingleSimple" /\ e.attrs["timezone"][2][1] = "String"
    /\ RequiredKeys.User \subseteq DOMAIN e.attrs
    /\ \E b \in {FullUser, MinimalUser} : AgreesBut(e.attrs, b.attrs, "timezone")

(* C17: a user whose timezone is a string outside the recognized set       *)
(* decodes to UnknownTimezone; a recognized timezone string decodes to a   *)
(* value that displays as that string.                                     *)
C17_UnknownTimezone ==
    pc = "decoded" /\ kind = "User" /\ NamesUrn(entry, kind) /\ TimezoneOnly(entry) =>
        IF entry.attrs["timezone"][2][2] \in KnownTimezones
        THEN /\ IsOk(res) /\ IsSome(res[2].timezone)
             /\ Timezone_to_string(res[2].timezone[2]) = entry.attrs["timezone"][2][2]
        ELSE res = Err("UnknownTimezone")

\* The locale texts the claim names as recognized.
KnownLocales == {"en", "en-AU", "en-US", "de", "de-DE"}

(* C18: Locale::try_from(s) succeeds iff s is en, en-AU, en-US, de or      *)
(* de-DE, and otherwise returns UnknownLocale; the Display form of the     *)
(* Locale parsed from a recognized s is s; and parsing the Display form of *)
(* any Locale gives that Locale back.                                      *)
C18_ClosedLocale ==
    /\ pc \in {"locale", "locale_shown", "locale_again"} /\ IsSome(text) =>
          IF text[2] \in KnownLocales THEN IsOk(parsed[2])
          ELSE parsed[2] = Err("UnknownLocale")
    /\ pc \in {"locale_shown", "locale_again"} /\ IsSome(text) => shown[2] = text[2]
    /\ pc = "locale_again" => again = parsed

C18_Witness ==
    /\ pc = "locale_again" /\ text = None
    /\ parsed = Some(Ok("Locale::de_DE")) /\ shown = Some("de-DE")
    /\ again = parsed

\* Text t matches [A-Za-z][A-Za-z0-9_-]*.
IsIdentifier(t) ==
    /\ Len(t) > 0
    /\ t[1] \in ALPHA
    /\ \A i \in 2..Len(t) : t[i] \in ALPHA \cup DIGIT \cup {"-", "_"}
\* The positions of text t at which a `.` separates two identifiers.
PathSplits(t) ==
    { i \in DOMAIN t : /\ t[i] = "."
                       /\ IsIdentifier(SubSeq(t, 1, i - 1))
                       /\ IsIdentifier(SubSeq(t, i + 1, Len(t))) }

(* C19: the attribute-path parser accepts a text iff it is an identifier,  *)
(* optionally followed by one `.` and a second identifier; it then returns *)
(* the AttrPath of the first identifier and of none or the second; on      *)
(* every other text it returns an error and no AttrPath.                   *)
C19_AttrPath ==
    pc = "attrpath" =>
        LET t == text[2]
        IN  IF IsIdentifier(t) THEN parsed[2] = Ok(AttrPath(t, None))
            ELSE IF PathSplits(t) # {}
            THEN \E i \in PathSplits(t) :
                    parsed[2] = Ok(AttrPath(SubSeq(t, 1, i - 1),
                                            Some(SubSeq(t, i + 1, Len(t)))))
            ELSE IsErr(parsed[2])

C19_Witness ==
    /\ pc = "attrpath"
    /\ text = Some(<<"a", "b", "c", "d", ".", "a", "b", "c", "d">>)
    /\ parsed = Some(Ok(AttrPath(<<"a", "b", "c", "d">>, Some(<<"a", "b", "c", "d">>))))

(* C20: the attribute-name parser accepts a text iff its first character   *)
(* is a letter and every later one a letter, a digit, `-` or `_`; so the   *)
(* empty text and a text led by a digit, `-` or `_` are rejected.          *)
C20_Identifier ==
    pc = "aname" => (IsOk(parsed[2]) <=> IsIdentifier(text[2]))

C20_Witness ==
    /\ pc = "aname"
    /\ text = Some(<<"a", "1", "-", "_", "2", "3">>)
    /\ IsOk(parsed[2])

\* Text t is a valid attribute path, and the AttrPath it denotes.
IsPath(t) == IsIdentifier(t) \/ PathSplits(t) # {}
PathOf(t) ==
    IF IsIdentifier(t) THEN AttrPath(t, None)
    ELSE LET i == CHOOSE j \in PathSplits(t) : TRUE
         IN  AttrPath(SubSeq(t, 1, i - 1), Some(SubSeq(t, i + 1, Len(t))))
\* Text t is a non-empty run of characters without white space and quotes.
IsBareToken(t) == t # <<>> /\ \A i \in 1..Len(t) : t[i] \notin {SPACE, QUOTE}
\* Text t is a quoted string without white space.
IsQuoted(t) ==
    /\ Len(t) >= 2 /\ t[1] = QUOTE /\ t[Len(t)] = QUOTE
    /\ \A i \in 2..(Len(t) - 1) : t[i] \notin {SPACE, QUOTE}
\* The positions i of text t with t = p ++ " pr", p = t[1..i-1] a valid path.
PresentForms(t) ==
    { i \in DOMAIN t : /\ t[i] = SPACE
                       /\ IsPath(SubSeq(t, 1, i - 1))
                       /\ SubSeq(t, i + 1, Len(t)) = <<"p", "r">> }
\* The positions i of text t with t = p ++ " eq " ++ v, p a valid path and
\* v a bare token or a quoted string.
EqualForms(t) ==
    { i \in DOMAIN t : /\ i + 4 <= Len(t)
                       /\ IsPath(SubSeq(t, 1, i - 1))
                       /\ SubSeq(t, i, i + 3) = <<SPACE, "e", "q", SPACE>>
                       /\ \/ IsBareToken(SubSeq(t, i + 4, Len(t)))
                          \/ IsQuoted(SubSeq(t, i + 4, Len(t))) }

(* C21: for every valid attribute path p the filter parser maps `p pr` to  *)
(* Present(p) and `p eq v` to Equal(p, value of v), a bare token v         *)
(* becoming the string value v; a text of neither form (no operator, `pr`  *)
(* followed by an operand, `eq` without an operand, an invalid path) gives *)
(* a syntax error and no filter value.                                     *)
C21_FilterForms ==
    pc = "attrexp" =>
        LET t == text[2]
        IN  IF PresentForms(t) # {}
            THEN \E i \in PresentForms(t) :
                    parsed[2] = Ok(Present(PathOf(SubSeq(t, 1, i - 1))))
            ELSE IF EqualForms(t) # {}
            THEN \E i \in EqualForms(t) :
                    LET v == SubSeq(t, i + 4, Len(t))
                    IN  /\ IsOk(parsed[2])
                        /\ parsed[2][2][1] = "Equal"
                        /\ parsed[2][2][2] = PathOf(SubSeq(t, 1, i - 1))
                        /\ IsBareToken(v) => parsed[2][2][3] = VString(v)
            ELSE IsErr(parsed[2])

C21_Witness ==
    /\ pc = "attrexp"
    /\ text = Some(<<"a", ".", "B", " ", "e", "q", " ", "d", "c", "b", "a">>)
    /\ parsed = Some(Ok(Equal(AttrPath(<<"a">>, Some(<<"B">>)),
                              VString(<<"d", "c", "b", "a">>))))

(* C22: for every User u and every Group g, decoding the entry that        *)
(* encoding it produced succeeds and returns a resource equal to it field  *)
(* by field, non-empty addresses and x509certificates lists included.      *)
C22_TypedRoundTrip ==
    pc = "redecoded" => redo = Some(Ok(res[2]))

\* The Groups do come back equal.
C22_GroupRoundTrip ==
    (pc = "redecoded" /\ kind = "Group") => redo = Some(Ok(res[2]))

\* A User comes back equal but for its x509certificates, which come back empty.
C22_UserButCertificates ==
    (pc = "redecoded" /\ kind = "User") =>
        /\ IsOk(redo[2])
        /\ redo[2][2] = [res[2] EXCEPT !.x509certificates = <<>>]

\* No decoded User has an address, so none is there to be recovered.
C22_NoAddresses ==
    (pc \in {"decoded", "encoded", "redecoded"} /\ kind = "User" /\ IsOk(res)) =>
        res[2].addresses = <<>>

\* Records a and b carry the same id, external_id and meta.
SameEnvelope(a, b) ==
    /\ a.id = b.id
    /\ a.external_id = b.external_id
    /\ a.meta = b.meta

(* C23: decoding an entry to a User or Group and encoding a User or Group  *)
(* to an entry both leave id, external_id and meta unchanged: the          *)
(* resource's three fields equal the entry's, and the produced entry's     *)
(* equal the resource's, whatever the attribute map contains.              *)
C23_EnvelopePassThrough ==
    kind \in Resources =>
        /\ (pc \in {"decoded", "encoded", "redecoded"} /\ IsOk(res)) =>
               SameEnvelope(res[2], entry)
        /\ pc \in {"encoded", "redecoded"} => SameEnvelope(out[2], res[2])
        /\ (pc = "redecoded" /\ IsOk(redo[2])) => SameEnvelope(redo[2][2], out[2])

C23_Witness ==
    /\ pc = "encoded" /\ kind = "User" /\ edits = 1
    /\ entry.attrs # FullUser.attrs
    /\ entry.external_id = Some("701984") /\ entry.meta = Some(Meta1)
    /\ SameEnvelope(out[2], entry)

====
